---- MODULE Spec2Model ----
(***************************************************************************)
(* The AST builder of src/src/ast_builder.py and the scope-aware DFG        *)
(* builder of src/src/dfg_builder.py, over the typed AST of                *)
(* src/src/ast_builder/node_types.py.                                      *)
(*                                                                         *)
(* The recursions of build_node and of _build_node_dfg are unfolded into   *)
(* explicit call stacks (ast_frames, frames).  Inputs are produced lazily: *)
(* each time a handler's loop asks for its next child, the child is drawn  *)
(* from a finite set of labels, so every tree over these labels within the *)
(* node bound is walked.  In the family "pipeline" the input is the        *)
(* parser's syntax tree, build_ast turns it into an AST and build_dfg      *)
(* walks that AST; in the other families build_dfg is called on ASTs of    *)
(* any shape, as its callers may.                                          *)
(***************************************************************************)
EXTENDS Integers, Sequences, FiniteSets, TLC

\* ------------------------------------------------------------------ bounds
\* AST nodes handed to one build_dfg call (family "scope").
MaxNodes == 5
\* AST nodes handed to one build_dfg call (family "decl").
MaxDeclNodes == 4
\* build_dfg calls on one DFGBuilder instance (family "reuse").
MaxBuilds == 2
\* AST nodes per build when the instance is reused (family "reuse").
MaxReuseNodes == 3
\* Syntax nodes build_node is called on in one build_ast (family "pipeline").
MaxSyntaxNodes == 6
\* AST nodes handed to one build_dfg call (family "calls").
MaxCallNodes == 4
\* Syntax nodes build_node is called on in one build_ast (family "legacy").
MaxLegacyNodes == 11
\* The largest value a chain of Result operations starts from.
MaxValue == 2
\* The map and flat_map calls of one chain.
MaxChain == 3
\* The JSON files a directory holds for detect_batch.
MaxFiles == 3
\* The largest concurrency_limit a BatchDetector is constructed with.
MaxConcurrency == 2
\* The largest retry_attempts and rate_limit_retry_attempts of an LLMConfig.
MaxRetries == 3
\* The largest max_backoff of an LLMConfig, in seconds.
MaxBackoff == 3
\* The detect calls made on one PonziDetectionPipeline.
MaxDetects == 3
\* The source files handed to process_batch.
MaxSourceFiles == 2
\* The edges added to a DFG before its data flow is analysed.
MaxFlowEdges == 3

\* ------------------------------------------------------------- identifiers
\* f"dfg_node_{self.node_counter}"
NodeId(k) == "dfg_node_" \o ToString(k)
\* f"dfg_edge_{self.edge_counter}"
EdgeId(k) == "dfg_edge_" \o ToString(k)
\* f"node_{self.node_counter}" of the AST builder
AstId(k) == "node_" \o ToString(k)
\* f"contract_{base_contract}"
ContractPlaceholder(base) == "contract_" \o base
\* f"init_{dfg_node.node_id}"
InitPlaceholder(id) == "init_" \o id

\* Optional[str] fields: None and "" are both falsy wherever the builder
\* tests them, so both are written "".
NoName == ""

\* ------------------------------------------------------ AST node records
ContractNode == "ContractNode"
FunctionNode == "FunctionNode"
VariableNode == "VariableNode"
ExpressionNode == "ExpressionNode"
ASTNode == "ASTNode"

\* The fields of ASTNode and of its four specializations, in one record
\* shape, without the node's identity and its links to other nodes.  text
\* is the source text as a sequence of characters.  Object references
\* (parent, children, operands) are node ids into the tree.
AstLabel(class, node_type, name, text) ==
    [class |-> class, node_type |-> node_type, name |-> name, text |-> text,
     base_contracts |-> <<>>, parameters |-> <<>>, return_parameters |-> <<>>,
     is_constructor |-> FALSE, is_state_variable |-> FALSE, initial_value |-> "",
     visibility |-> "", state_mutability |-> "", metadata |-> {}]

Contract(name, bases) ==
    [AstLabel(ContractNode, "contract_declaration", name, <<>>)
        EXCEPT !.base_contracts = bases]

Function(name, params, rets) ==
    [AstLabel(FunctionNode, "function_definition", name, <<>>)
        EXCEPT !.parameters = params, !.return_parameters = rets]

\* A variable declaration.  The grammar has state_variable_declaration in
\* contract bodies only, so NextAst sets the flag from the node's parent.
Variable(name, init) ==
    [AstLabel(VariableNode, "variable_declaration", name, <<>>)
        EXCEPT !.initial_value = init]

Expression(name, text) == AstLabel(ExpressionNode, "binary_expression", name, text)

Generic(node_type, text) == AstLabel(ASTNode, node_type, NoName, text)

\* The position of a node in the source; the handlers of the AST builder
\* give one to every node they make (get_source_location).  The positions
\* themselves play no part and are all taken to be the same.
SourceLocation == [line |-> 1, column |-> 1, end_line |-> 1, end_column |-> 1]

\* source_location = None, the default of the field.
NoLocation == <<>>

\* An AST node: a label with its identity, its position and its parent
\* back-reference, and no children yet.
MakeAst(label, id, parent) ==
    [node_id |-> id, parent |-> parent, children |-> <<>>,
     left_operand |-> "", right_operand |-> "", arguments |-> <<>>,
     source_location |-> SourceLocation] @@ label

\* The nodes _build_node_dfg recurses into from a node, in order: the
\* children of a contract, function or generic node, the operands and
\* arguments of an expression, nothing for a variable.
SubNodes(ast_node) ==
    CASE ast_node.class = ExpressionNode ->
            (IF ast_node.left_operand # "" THEN <<ast_node.left_operand>> ELSE <<>>)
            \o (IF ast_node.right_operand # "" THEN <<ast_node.right_operand>> ELSE <<>>)
            \o ast_node.arguments
      [] ast_node.class = VariableNode -> <<>>
      [] OTHER -> ast_node.children

\* The tree with one more node under parent_id: appended to the children,
\* or for an expression put in the first free operand slot, else appended
\* to the arguments.
Attach(tree, parent_id, node) ==
    LET with_node == (node.node_id :> node) @@ tree
    IN  IF parent_id = ""
        THEN with_node
        ELSE LET p == tree[parent_id]
             IN  CASE p.class # ExpressionNode ->
                        [with_node EXCEPT ![parent_id].children = Append(@, node.node_id)]
                   [] p.left_operand = "" ->
                        [with_node EXCEPT ![parent_id].left_operand = node.node_id]
                   [] p.right_operand = "" ->
                        [with_node EXCEPT ![parent_id].right_operand = node.node_id]
                   [] OTHER ->
                        [with_node EXCEPT ![parent_id].arguments = Append(@, node.node_id)]

\* A parameter record of extract_parameter_info: "type" and "name" are
\* present only when the grammar production was found.
NamedParam == [name |-> "a", type |-> "uint"]
TypeOnlyParam == [type |-> "uint"]

\* The characters of the names that occur in the inputs.
Chars(name) ==
    CASE name = "constructor" ->
            <<"c", "o", "n", "s", "t", "r", "u", "c", "t", "o", "r">>
      [] OTHER -> <<name>>

\* Python's  `pattern in text`  on character sequences.
Contains(text, pattern) ==
    \E i \in 0..(Len(text) - Len(pattern)) :
        \A j \in 1..Len(pattern) : text[i + j] = pattern[j]

\* --------------------------------------------------------------- inputs
\* The node labels a family of input trees is built from, below the root.
Labels(fam) ==
    CASE fam = "scope" ->
            { Contract("C", <<>>),
              Function("f", <<>>, <<>>),
              Function(NoName, <<>>, <<>>),
              Variable("x", ""),
              Expression("x", <<"x">>) }
      [] fam = "decl" ->
            { Contract("C", <<"B">>),
              Contract(NoName, <<>>),
              Function("f", <<NamedParam>>, <<TypeOnlyParam>>),
              Function(NoName, <<TypeOnlyParam>>, <<>>),
              Variable("x", "1"),
              Expression("x", <<"f", "(", "x", ")">>),
              Generic("block", <<>>) }
      [] fam = "calls" ->
            { Contract("C", <<>>),
              Variable("x", ""),
              Function("f", <<>>, <<>>),
              Function(NoName, <<>>, <<>>),
              Expression("x", <<"f", "(", "x", ")">>),
              Expression("x", <<"g", "f", "(", ")">>),
              Expression("x", <<"x">>) }
      [] OTHER ->
            { Contract("C", <<"B">>),
              Function("f", <<NamedParam>>, <<>>),
              Variable("x", "1"),
              Expression("x", <<"f", "(", "x", ")">>),
              Generic("block", <<>>) }

\* The root of every tree the AST builder returns is the node built for the
\* parser's source_file, a generic node (NodeType has no such member, so
\* build_generic_node tags it IDENTIFIER).
RootLabels(fam) == { Generic("identifier", <<>>) }

NodeLimit(fam) ==
    CASE fam = "reuse" -> MaxReuseNodes
      [] fam = "decl" -> MaxDeclNodes
      [] fam = "pipeline" -> MaxSyntaxNodes
      [] fam = "legacy" -> MaxLegacyNodes
      [] fam = "calls" -> MaxCallNodes
      [] OTHER -> MaxNodes

BuildLimit(fam) == IF fam = "reuse" THEN MaxBuilds ELSE 1

\* ------------------------------------------------ the parser's syntax tree
\* A node of the tree parse_source returns: type, source text, children.
Syn(type, text, children) == [type |-> type, text |-> text, children |-> children]

\* An anonymous node: a keyword or a punctuation mark, typed by its text.
Token(word) == Syn(word, Chars(word), <<>>)

Ident(name) == Syn("identifier", Chars(name), <<>>)

\* The values of the NodeType enumeration.
NodeTypes ==
    {"contract_declaration", "interface_declaration", "library_declaration",
     "function_definition", "constructor_definition",
     "fallback_receive_definition", "modifier_definition",
     "state_variable_declaration", "variable_declaration", "parameter",
     "expression_statement", "if_statement", "for_statement",
     "while_statement", "return_statement", "block",
     "binary_expression", "unary_expression", "assignment_expression",
     "call_expression", "member_expression", "identifier",
     "number_literal", "string_literal", "boolean_literal",
     "type_name", "primitive_type", "user_defined_type", "mapping_type",
     "array_type", "pragma_directive", "import_directive",
     "event_definition", "struct_declaration", "enum_declaration"}

\* The node types build_node hands to build_expression_node.
ExpressionTypes ==
    {"binary_expression", "unary_expression", "assignment_expression",
     "call_expression", "member_expression"}

\* The child types build_expression_node passes over.
Punctuation == {";", ",", "(", ")", "{", "}"}

\* get_node_text as a str: the characters joined.
RECURSIVE Join(_)
Join(text) == IF text = <<>> THEN "" ELSE Head(text) \o Join(Tail(text))

OfType(children, type) == SelectSeq(children, LAMBDA c : c.type = type)

\* The text of the first child of a type, "" when there is none:
\* extract_contract_name, extract_function_name, extract_variable_name
\* (type "identifier"), extract_initial_value (type "expression").
FirstText(node, type) ==
    IF OfType(node.children, type) = <<>>
    THEN ""
    ELSE Join(OfType(node.children, type)[1].text)

extract_contract_name(node) == FirstText(node, "identifier")
extract_function_name(node) == FirstText(node, "identifier")
extract_variable_name(node) == FirstText(node, "identifier")
extract_initial_value(node) == FirstText(node, "expression")

\* extract_visibility: the member for the first child of type visibility
\* whose text is a visibility, "" (None) when there is none.
extract_visibility(node) ==
    LET found == SelectSeq(OfType(node.children, "visibility"),
                           LAMBDA c : Join(c.text) \in
                               {"public", "private", "internal", "external"})
    IN  IF found = <<>> THEN "" ELSE Join(found[1].text)

\* extract_state_mutability, likewise.
extract_state_mutability(node) ==
    LET found == SelectSeq(OfType(node.children, "state_mutability"),
                           LAMBDA c : Join(c.text) \in
                               {"pure", "view", "payable", "constant"})
    IN  IF found = <<>> THEN "" ELSE Join(found[1].text)

\* The texts of the children of a type found under each node of a sequence.
RECURSIVE TextsBelow(_, _)
TextsBelow(nodes, type) ==
    IF nodes = <<>>
    THEN <<>>
    ELSE LET found == OfType(Head(nodes).children, type)
         IN  [i \in 1..Len(found) |-> Join(found[i].text)]
             \o TextsBelow(Tail(nodes), type)

extract_base_contracts(node) ==
    TextsBelow(OfType(node.children, "inheritance_specifier"), "identifier")

\* The dict of a parameter: "type" and "name" when such children exist (the
\* last of each wins); an empty dict stands for None.
extract_parameter_info(param_node) ==
    LET types == OfType(param_node.children, "type_name")
        names == OfType(param_node.children, "identifier")
    IN  CASE types # <<>> /\ names # <<>> ->
                [name |-> Join(names[Len(names)].text),
                 type |-> Join(types[Len(types)].text)]
          [] types # <<>> -> [type |-> Join(types[Len(types)].text)]
          [] names # <<>> -> [name |-> Join(names[Len(names)].text)]
          [] OTHER -> <<>>

\* The parameters under the children of one type (parameter_list for
\* extract_parameters, return_type_definition for extract_return_parameters).
RECURSIVE ParametersBelow(_)
ParametersBelow(lists) ==
    IF lists = <<>>
    THEN <<>>
    ELSE LET found == OfType(Head(lists).children, "parameter")
             infos == [i \in 1..Len(found) |-> extract_parameter_info(found[i])]
         IN  SelectSeq(infos, LAMBDA info : DOMAIN info # {})
             \o ParametersBelow(Tail(lists))

extract_parameters(node) ==
    ParametersBelow(OfType(node.children, "parameter_list"))

extract_return_parameters(node) ==
    ParametersBelow(OfType(node.children, "return_type_definition"))

\* The syntax nodes a lazily produced body or file is made of.  The body of
\* a contract or function is produced lazily too, so the text of these two
\* is left empty; the children of every other node are given with it.
SyntaxLabels ==
    { Syn("contract_declaration", <<>>,
          <<Token("contract"), Ident("C"), Syn("contract_body", <<>>, <<>>)>>),
      Syn("function_definition", <<>>,
          <<Token("function"), Ident("f"), Syn("function_body", <<>>, <<>>)>>),
      Syn("constructor_definition", <<>>,
          <<Token("constructor"), Syn("function_body", <<>>, <<>>)>>),
      Syn("state_variable_declaration", <<"uint", "x", ";">>,
          <<Syn("type_name", <<"uint">>, <<>>), Ident("x"), Token(";")>>),
      Syn("variable_declaration", <<"uint", "x">>,
          <<Syn("type_name", <<"uint">>, <<>>), Ident("x")>>),
      Syn("call_expression", <<"f", "(", "x", ")">>,
          <<Ident("f"), Token("("), Ident("x"), Token(")")>>),
      Ident("x"),
      Token(";") }

\* The syntax nodes of the family "legacy": a contract C, a function of the
\* contract's name and one of another name, with and without a visibility,
\* a constructor, state variables with and without a visibility.
LegacySyntaxLabels ==
    { Syn("contract_declaration", <<>>,
          <<Token("contract"), Ident("C"), Syn("contract_body", <<>>, <<>>)>>),
      Syn("function_definition", <<>>,
          <<Token("function"), Ident("C"), Syn("function_body", <<>>, <<>>)>>),
      Syn("function_definition", <<>>,
          <<Token("function"), Ident("f"), Syn("visibility", <<"public">>, <<>>),
            Syn("state_mutability", <<"constant">>, <<>>),
            Syn("function_body", <<>>, <<>>)>>),
      Syn("constructor_definition", <<>>,
          <<Token("constructor"), Syn("function_body", <<>>, <<>>)>>),
      Syn("state_variable_declaration", <<"uint", "x", ";">>,
          <<Syn("type_name", <<"uint">>, <<>>), Ident("x"), Token(";")>>),
      Syn("state_variable_declaration", <<"uint", "public", "y", ";">>,
          <<Syn("type_name", <<"uint">>, <<>>),
            Syn("visibility", <<"public">>, <<>>), Ident("y"), Token(";")>>),
      Syn("variable_declaration", <<"uint", "x">>,
          <<Syn("type_name", <<"uint">>, <<>>), Ident("x")>>),
      Syn("call_expression", <<"f", "(", "x", ")">>,
          <<Ident("f"), Token("("), Ident("x"), Token(")")>>) }

\* The children build_node is called on by the handler of a syntax node
\* whose children are given: none for a contract, function or variable,
\* all but punctuation for an expression, all for any other node.
Recursed(node) ==
    CASE node.type \in {"contract_declaration", "function_definition",
                        "constructor_definition", "state_variable_declaration",
                        "variable_declaration"} -> <<>>
      [] node.type \in ExpressionTypes ->
            SelectSeq(node.children, LAMBDA c : c.type \notin Punctuation)
      [] OTHER -> node.children

\* The handler of a syntax node loops over a body that is produced lazily.
HasBody(node) ==
    \/ /\ node.type = "contract_declaration"
       /\ OfType(node.children, "contract_body") # <<>>
    \/ /\ node.type \in {"function_definition", "constructor_definition"}
       /\ OfType(node.children, "function_body") # <<>>

\* The calls of build_node a syntax node brings with it: itself, the braces
\* of its body, its given children (which are leaves in SyntaxLabels).
Calls(node) ==
    1 + (IF HasBody(node) THEN 2 ELSE 0) + Len(Recursed(node))

VARIABLES
    family,                 \* the family of inputs this behaviour draws from
    pc,                     \* "idle" | "build" | "built" | "walk" | "post" | "returned"
    returned,               \* what the last build_dfg call returned ("": none has)
    builds,                 \* build_dfg calls made on this instance
    ast,                    \* the AST nodes in existence, by node id
    ast_counter,            \* ASTBuilder.node_counter: AST node ids issued
    ast_frames,             \* active build_node calls, outermost first
    frames,                 \* active _build_node_dfg calls, outermost first
    current_dfg,            \* self.current_dfg: [nodes, edges]
    current_scope,          \* self.current_scope
    scope_stack,            \* self.scope_stack
    variable_definitions,   \* self.variable_definitions: key -> node id
    function_definitions,   \* self.function_definitions, in insertion order
    node_counter,           \* self.node_counter
    edge_counter,           \* self.edge_counter
    config,                 \* the DFGConfig object constructed last
    passed_kwargs,          \* the keyword arguments it was constructed with
    asked_type,             \* the node the filter functions are asked about
    asked_name,
    asked_text,
    call,                   \* the last call into dfg_config: function, args, result
    analysis,               \* what analyze_source returned (NoAnalysis: not called)
    serialized,             \* what serialize_dfg returned (NotSerialized: not called)
    reconstructed,          \* what _create_dfg_from_json returned or raised
    chain_result,           \* utils/result.py: the Result a chain has come to
    chain_call,             \* the last call of the chain: method, fn, calls of fn
    chain_steps,            \* the map and flat_map calls made in the chain
    batch_detector,         \* BatchDetector's fields
    semaphore,              \* detect_batch's semaphore: _value and _waiters
    tasks,                  \* the process_file coroutines gather runs, by file
    batch_stats,            \* what detect_batch returned or raised
    llm_config,             \* LLMConfig: the retry and backoff settings
    retry_frames,           \* active _call_api_with_retry calls: their retry_count
    api_log,                \* the API calls made: error, backoff slept, retried
    api_outcome,            \* what the outermost call returned or raised
    pipeline_cache,         \* PonziDetectionPipeline.cache: code hash -> entry
    detect_frames,          \* detect calls awaiting analyze_code: the contract data
    detect_log,             \* the calls, analyzer invocations and returns of detect
    run_config,             \* SolidityPipeline: detection and visualization enabled or not
    batch_result,           \* process_batch's batch_result: total_files, results, summary
    batch_pc,               \* process_batch: "idle" | "loop" | "returned" | "raised"
    flow                    \* the last analyze_data_flow call: start, end and the list returned

filter_vars == <<config, passed_kwargs, asked_type, asked_name, asked_text, call>>

\* The components around the builders and the filter.
analyzer_vars == <<analysis>>

serializer_vars == <<serialized, reconstructed>>

result_vars == <<chain_result, chain_call, chain_steps>>

batch_vars == <<batch_detector, semaphore, tasks, batch_stats>>

retry_vars == <<llm_config, retry_frames, api_log, api_outcome>>

detect_vars == <<pipeline_cache, detect_frames, detect_log>>

runner_vars == <<run_config, batch_result, batch_pc>>

flow_vars == <<flow>>

\* The components that stand apart from the builders.
utility_vars == <<result_vars, batch_vars, retry_vars, detect_vars, runner_vars, flow_vars>>

outer_vars == <<analyzer_vars, serializer_vars, utility_vars>>

\* What a call into one of these components leaves alone: the builders, the
\* filter, and the other components.
core_vars == <<family, analyzer_vars, serializer_vars>>
besides_result == <<batch_vars, retry_vars, detect_vars, runner_vars, flow_vars>>
besides_batch == <<result_vars, retry_vars, detect_vars, runner_vars, flow_vars>>
besides_retry == <<result_vars, batch_vars, detect_vars, runner_vars, flow_vars>>
besides_detect == <<result_vars, batch_vars, retry_vars, runner_vars, flow_vars>>
besides_runner == <<result_vars, batch_vars, retry_vars, detect_vars, flow_vars>>
besides_flow == <<result_vars, batch_vars, retry_vars, detect_vars, runner_vars>>

builder_vars == <<pc, returned, builds, ast, ast_counter, ast_frames, frames, current_dfg,
                  current_scope, scope_stack, variable_definitions,
                  function_definitions, node_counter, edge_counter>>

vars == <<family, pc, returned, builds, ast, ast_counter, ast_frames, frames, current_dfg,
          current_scope, scope_stack, variable_definitions,
          function_definitions, node_counter, edge_counter,
          config, passed_kwargs, asked_type, asked_name, asked_text, call,
          analysis, serialized, reconstructed,
          chain_result, chain_call, chain_steps,
          batch_detector, semaphore, tasks, batch_stats,
          llm_config, retry_frames, api_log, api_outcome,
          pipeline_cache, detect_frames, detect_log,
          run_config, batch_result, batch_pc,
          flow>>

\* The families whose trees build_ast makes from a syntax tree.
FromSource == family \in {"pipeline", "legacy"}

\* The builder instance's fields as one record, so that the statements of
\* a handler compose as function applications.  tree holds the AST objects
\* the builder refers to (the virtual parameter nodes are added to it).
Self ==
    [nodes |-> current_dfg.nodes, edges |-> current_dfg.edges,
     tree |-> ast,
     current_scope |-> current_scope, scope_stack |-> scope_stack,
     variable_definitions |-> variable_definitions,
     function_definitions |-> function_definitions,
     node_counter |-> node_counter, edge_counter |-> edge_counter]

Store(b) ==
    /\ current_dfg' = [nodes |-> b.nodes, edges |-> b.edges]
    /\ ast' = b.tree
    /\ current_scope' = b.current_scope
    /\ scope_stack' = b.scope_stack
    /\ variable_definitions' = b.variable_definitions
    /\ function_definitions' = b.function_definitions
    /\ node_counter' = b.node_counter
    /\ edge_counter' = b.edge_counter

\* ------------------------------------------------------- dict operations
\* d[key] = value
DictPut(d, key, value) == (key :> value) @@ d

\* d[key] = value on a dict whose iteration order matters: a new key goes
\* last, an existing key keeps its place.
OrderedPut(d, key, value) ==
    IF \E i \in 1..Len(d) : d[i].key = key
    THEN [i \in 1..Len(d) |->
            IF d[i].key = key THEN [key |-> key, value |-> value] ELSE d[i]]
    ELSE Append(d, [key |-> key, value |-> value])

\* --------------------------------------------------- DFGBuilder methods
\* _extract_node_properties (the legacy handler is disabled): the line and
\* the column of a node that has a position.
extract_node_properties(ast_node) ==
    IF ast_node.source_location # NoLocation
    THEN {<<"source_location", [line |-> ast_node.source_location.line,
                                column |-> ast_node.source_location.column]>>}
    ELSE {}

get_dfg_node_type(ast_node) ==
    CASE ast_node.class = FunctionNode ->
            IF ast_node.is_constructor THEN "constructor_function" ELSE "function"
      [] ast_node.class = VariableNode ->
            IF ast_node.is_state_variable THEN "state_variable" ELSE "local_variable"
      [] ast_node.class = ExpressionNode -> "expression"
      [] ast_node.class = ContractNode -> "contract"
      [] OTHER -> ast_node.node_type

\* _create_dfg_node that names the node after the counter and does not
\* advance it.
create_dfg_node_stale_counter(b, ast_node) ==
    LET k == b.node_counter + 1
        dfg_node == [node_id |-> NodeId(k),
                     ast_node |-> ast_node.node_id,
                     node_type |-> get_dfg_node_type(ast_node),
                     name |-> ast_node.name,
                     scope |-> b.current_scope,
                     properties |-> extract_node_properties(ast_node)]
    IN  [b EXCEPT !.nodes = DictPut(@, NodeId(k), dfg_node)]

\* generate_node_id, then the DFGNode, then current_dfg.add_node.  The new
\* node's id is NodeId of the counter afterwards.  ast_node is the
\* reference to the AST node, its id in the tree.
create_dfg_node(b, ast_node) ==
    LET k == b.node_counter + 1
        dfg_node == [node_id |-> NodeId(k),
                     ast_node |-> ast_node.node_id,
                     node_type |-> get_dfg_node_type(ast_node),
                     name |-> ast_node.name,
                     scope |-> b.current_scope,
                     properties |-> extract_node_properties(ast_node)]
    IN  [b EXCEPT !.node_counter = k,
                  !.nodes = DictPut(@, NodeId(k), dfg_node)]

add_edge(b, source_id, target_id, edge_type, properties) ==
    LET k == b.edge_counter + 1
        edge == [edge_id |-> EdgeId(k),
                 source_node_id |-> source_id,
                 target_node_id |-> target_id,
                 edge_type |-> edge_type,
                 properties |-> properties]
    IN  [b EXCEPT !.edge_counter = k,
                  !.edges = DictPut(@, EdgeId(k), edge)]

\* enter_scope that pushes the name and leaves current_scope as it was.
enter_scope_no_current(b, scope_name) ==
    [b EXCEPT !.scope_stack = Append(@, scope_name)]

enter_scope(b, scope_name) ==
    [b EXCEPT !.scope_stack = Append(@, scope_name),
              !.current_scope = scope_name]

\* exit_scope that pops the stack and leaves current_scope as it was.
exit_scope_stale(b) ==
    IF Len(b.scope_stack) > 1
    THEN [b EXCEPT !.scope_stack = SubSeq(@, 1, Len(@) - 1)]
    ELSE b

exit_scope(b) ==
    IF Len(b.scope_stack) > 1
    THEN LET popped == SubSeq(b.scope_stack, 1, Len(b.scope_stack) - 1)
         IN  [b EXCEPT !.scope_stack = popped,
                       !.current_scope = popped[Len(popped)]]
    ELSE b

\* reset_state without the reset of the definition table.
reset_state_keeps_definitions(b) ==
    [b EXCEPT !.nodes = <<>>, !.edges = <<>>,
              !.scope_stack = <<"global">>,
              !.current_scope = "global",
              !.function_definitions = <<>>]

\* reset_state that also starts the two id counters again.
reset_state_and_counters(b) ==
    [b EXCEPT !.nodes = <<>>, !.edges = <<>>,
              !.scope_stack = <<"global">>,
              !.current_scope = "global",
              !.variable_definitions = <<>>,
              !.function_definitions = <<>>,
              !.node_counter = 0,
              !.edge_counter = 0]

\* The statements of build_dfg between the guard and the walk.
reset_state(b) ==
    [b EXCEPT !.nodes = <<>>, !.edges = <<>>,
              !.scope_stack = <<"global">>,
              !.current_scope = "global",
              !.variable_definitions = <<>>,
              !.function_definitions = <<>>]

\* One parameter or return parameter: a virtual AST node and a DFG node,
\* each taking an id from the node counter.  An empty record yields no node.
create_parameter_dfg(b, param_info, function_node, is_return) ==
    IF DOMAIN param_info = {}
    THEN b
    ELSE LET param_name == IF "name" \in DOMAIN param_info
                           THEN param_info.name
                           ELSE "param_" \o ToString(b.node_counter)
             k == b.node_counter + 2
             virtual_ast_node ==
                 [MakeAst(AstLabel(ASTNode, "parameter", param_name, <<>>),
                          NodeId(b.node_counter + 1), "")
                     EXCEPT !.source_location = NoLocation,
                            !.metadata =
                                {<<"parameter_type",
                                   IF "type" \in DOMAIN param_info
                                   THEN param_info.type ELSE "unknown">>,
                                 <<"is_return",
                                   IF is_return THEN "True" ELSE "False">>}]
             dfg_node == [node_id |-> NodeId(k),
                          ast_node |-> virtual_ast_node.node_id,
                          node_type |-> "parameter",
                          name |-> param_name,
                          scope |-> b.current_scope,
                          properties |->
                              {<<"is_return", IF is_return THEN "True" ELSE "False">>,
                               <<"function", function_node.name>>}]
         IN  [b EXCEPT !.node_counter = k,
                       !.tree = Attach(@, "", virtual_ast_node),
                       !.nodes = DictPut(@, NodeId(k), dfg_node)]

\* The parameter loops of _build_function_dfg: each created parameter node
\* gets a definition edge from the function's node.
RECURSIVE add_parameters(_, _, _, _, _)
add_parameters(b, params, function_node, dfg_id, is_return) ==
    IF params = <<>>
    THEN b
    ELSE LET b1 == create_parameter_dfg(b, Head(params), function_node, is_return)
             b2 == IF b1.node_counter # b.node_counter
                   THEN add_edge(b1, dfg_id, NodeId(b1.node_counter), "definition", {})
                   ELSE b1
         IN  add_parameters(b2, Tail(params), function_node, dfg_id, is_return)

\* The body of _build_variable_dfg.
\* _build_variable_dfg recording every definition under the global scope.
record_variable_global(b, variable_node, dfg_id) ==
    LET b1 == IF variable_node.name # NoName
              THEN [b EXCEPT !.variable_definitions =
                        DictPut(@, "global." \o variable_node.name, dfg_id)]
              ELSE b
    IN  IF variable_node.initial_value # ""
        THEN add_edge(b1, dfg_id, InitPlaceholder(dfg_id), "data_dependency",
                      {<<"initialization", "True">>})
        ELSE b1

record_variable(b, variable_node, dfg_id) ==
    LET b1 == IF variable_node.name # NoName
              THEN [b EXCEPT !.variable_definitions =
                        DictPut(@, b.current_scope \o "." \o variable_node.name, dfg_id)]
              ELSE b
    IN  IF variable_node.initial_value # ""
        THEN add_edge(b1, dfg_id, InitPlaceholder(dfg_id), "data_dependency",
                      {<<"initialization", "True">>})
        ELSE b1

\* _handle_variable_reference that, after both lookups missed, searches the
\* enclosing scopes of the stack.
handle_variable_reference_lexical(b, expression_node, dfg_id) ==
    IF expression_node.name = NoName
    THEN b
    ELSE LET var_key == b.current_scope \o "." \o expression_node.name
             global_var_key == "global." \o expression_node.name
             outer == {i \in 1..Len(b.scope_stack) :
                          (b.scope_stack[i] \o "." \o expression_node.name)
                              \in DOMAIN b.variable_definitions}
             b1 == IF var_key \in DOMAIN b.variable_definitions
                   THEN add_edge(b, b.variable_definitions[var_key], dfg_id,
                                 "data_dependency", {<<"relation", "def-use">>})
                   ELSE b
             b2 == IF global_var_key \in DOMAIN b1.variable_definitions
                   THEN add_edge(b1, b1.variable_definitions[global_var_key], dfg_id,
                                 "data_dependency", {<<"relation", "state-var-use">>})
                   ELSE b1
         IN  IF b2.edges = b.edges /\ outer # {}
             THEN LET i == CHOOSE j \in outer : \A k \in outer : k <= j
                  IN  add_edge(b2,
                               b2.variable_definitions[
                                   b.scope_stack[i] \o "." \o expression_node.name],
                               dfg_id, "data_dependency", {<<"relation", "outer-use">>})
             ELSE b2

handle_variable_reference(b, expression_node, dfg_id) ==
    IF expression_node.name = NoName
    THEN b
    ELSE LET var_key == b.current_scope \o "." \o expression_node.name
             global_var_key == "global." \o expression_node.name
             b1 == IF var_key \in DOMAIN b.variable_definitions
                   THEN add_edge(b, b.variable_definitions[var_key], dfg_id,
                                 "data_dependency", {<<"relation", "def-use">>})
                   ELSE b
         IN  IF global_var_key \in DOMAIN b1.variable_definitions
             THEN add_edge(b1, b1.variable_definitions[global_var_key], dfg_id,
                           "data_dependency", {<<"relation", "state-var-use">>})
             ELSE b1

\* The base-contract loop of _build_contract_dfg.
RECURSIVE add_base_contracts(_, _, _)
add_base_contracts(b, bases, dfg_id) ==
    IF bases = <<>>
    THEN b
    ELSE add_base_contracts(
             add_edge(b, dfg_id, ContractPlaceholder(Head(bases)), "definition",
                      {<<"inheritance_type", "base_contract">>}),
             Tail(bases), dfg_id)

\* current_dfg.nodes in insertion order: ids are issued in increasing order.
NodesInOrder(b) ==
    SelectSeq([k \in 1..b.node_counter |-> NodeId(k)],
              LAMBDA id : id \in DOMAIN b.nodes)

\* The inner loop with an edge to every expression node that has text,
\* whether or not the text holds the function's name.
RECURSIVE add_calls_unmatched(_, _, _)
add_calls_unmatched(b, func, ids) ==
    IF ids = <<>>
    THEN b
    ELSE LET node == b.nodes[Head(ids)]
             text == b.tree[node.ast_node].text
             hit == /\ node.node_type = "expression"
                    /\ text # <<>>
         IN  add_calls_unmatched(
                 IF hit THEN add_edge(b, func.value, Head(ids), "function_call", {})
                 ELSE b,
                 func, Tail(ids))

\* The inner loop of _build_inter_scope_flows for one function.
RECURSIVE add_calls(_, _, _)
add_calls(b, func, ids) ==
    IF ids = <<>>
    THEN b
    ELSE LET node == b.nodes[Head(ids)]
             text == b.tree[node.ast_node].text
             hit == /\ node.node_type = "expression"
                    /\ text # <<>>
                    /\ Contains(text, Chars(func.key) \o <<"(">>)
         IN  add_calls(IF hit THEN add_edge(b, func.value, Head(ids), "function_call", {})
                       ELSE b,
                       func, Tail(ids))

RECURSIVE add_function_calls(_, _)
add_function_calls(b, funcs) ==
    IF funcs = <<>>
    THEN b
    ELSE add_function_calls(add_calls(b, Head(funcs), NodesInOrder(b)), Tail(funcs))

\* The edge a handler adds after _build_node_dfg returned its child's node.
link_child(b, parent, child_id) ==
    CASE b.tree[parent.ast_node].class = ContractNode ->
            add_edge(b, parent.dfg_node, child_id, "definition", {})
      [] b.tree[parent.ast_node].class = ExpressionNode ->
            add_edge(b, child_id, parent.dfg_node, "data_dependency", {})
      [] OTHER ->
            add_edge(b, parent.dfg_node, child_id, "control_dependency", {})

\* -------------------------------------------------------------- actions
Top == frames[Len(frames)]

\* The AST node of the innermost active call.
TopAst == ast[Top.ast_node]

\* The labels the next node of a lazily produced AST may carry.
NextLabels == IF frames = <<>> THEN RootLabels(family) ELSE Labels(family)

\* A lazily produced node.
NextAst(label) ==
    LET in_contract == frames # <<>> /\ TopAst.class = ContractNode
        placed == IF label.class = VariableNode /\ in_contract
                  THEN [label EXCEPT !.is_state_variable = TRUE,
                                     !.node_type = "state_variable_declaration"]
                  ELSE label
    IN  MakeAst(placed, AstId(ast_counter + 1),
                IF frames = <<>> THEN "" ELSE Top.ast_node)

\* The sub-nodes of an AST node the walk has not been called on yet.
Unvisited(id) ==
    SelectSeq(SubNodes(ast[id]),
              LAMBDA c : \A n \in DOMAIN current_dfg.nodes :
                             current_dfg.nodes[n].ast_node # c)

\* The root of the tree build_ast returned.
Root == CHOOSE id \in DOMAIN ast :
            ast[id].parent = "" /\ id \in {AstId(k) : k \in 1..ast_counter}

\* The nodes the next call of _build_node_dfg can be made on: the root when
\* no call is active, otherwise the next child of the loop of the innermost
\* active handler.  In the family "pipeline" that is a node of the tree
\* build_ast returned, in the others a lazily produced one.
NextNodes ==
    IF pc # "walk"
    THEN {}
    ELSE IF FromSource
    THEN IF frames = <<>>
         THEN {ast[Root]}
         ELSE IF Unvisited(Top.ast_node) # <<>>
         THEN {ast[Head(Unvisited(Top.ast_node))]}
         ELSE {}
    ELSE IF ast_counter < NodeLimit(family) /\ (frames = <<>> => ast_counter = 0)
    THEN {NextAst(label) : label \in NextLabels}
    ELSE {}

\* The builder with the node of the coming call in the tree handed to it.
WithNext(node) ==
    IF FromSource
    THEN Self
    ELSE [Self EXCEPT !.tree = Attach(@, node.parent, node)]

\* The AST node ids issued once the coming call's node exists.
Handed == IF FromSource THEN ast_counter ELSE ast_counter + 1

\* The loop of the innermost active handler is over.
LoopDone ==
    /\ pc = "walk"
    /\ frames # <<>>
    /\ Unvisited(Top.ast_node) = <<>>

\* A call of _build_node_dfg returns child_id to the handler whose frame is
\* the last of callers, which adds its edge; the root's call returns to
\* build_dfg.
Return(b, callers, child_id) ==
    /\ frames' = callers
    /\ IF callers = <<>>
       THEN /\ pc' = "post"
            /\ Store(b)
       ELSE /\ pc' = pc
            /\ Store(link_child(b, callers[Len(callers)], child_id))

\* build_dfg up to the call of _build_node_dfg on the root.
build_dfg ==
    /\ pc \in (CASE family = "pipeline" -> {"built"}
                  [] family = "legacy" -> {"annotated"}
                  [] OTHER -> {"idle", "returned"})
    /\ builds < BuildLimit(family)
    /\ builds' = builds + 1
    /\ pc' = "walk"
    /\ ast_counter' = IF FromSource THEN ast_counter ELSE 0
    /\ frames' = <<>>
    /\ Store([reset_state(Self) EXCEPT !.tree = IF FromSource THEN @ ELSE <<>>])
    /\ returned' = ""
    /\ UNCHANGED <<family, outer_vars, filter_vars, ast_frames>>

\* build_dfg(None, ...): returns None and touches nothing.
build_dfg_absent ==
    /\ pc \in {"idle", "built", "returned"}
    /\ builds < BuildLimit(family)
    /\ returned' = "None"
    /\ UNCHANGED <<family, outer_vars, filter_vars, pc, builds, ast, ast_counter, ast_frames, frames, current_dfg,
                   current_scope, scope_stack, variable_definitions,
                   function_definitions, node_counter, edge_counter>>

\* _build_node_dfg on a ContractNode, up to the loop over its children.
build_contract_dfg(contract_node) ==
    /\ contract_node.class = ContractNode
    /\ LET b1 == create_dfg_node(WithNext(contract_node), contract_node)
           b2 == enter_scope(b1, IF contract_node.name # NoName
                                 THEN contract_node.name ELSE "contract")
       IN  /\ frames' = Append(frames, [ast_node |-> contract_node.node_id,
                                        dfg_node |-> NodeId(b1.node_counter)])
           /\ Store(b2)
    /\ ast_counter' = Handed
    /\ UNCHANGED <<family, outer_vars, filter_vars, pc, returned, builds, ast_frames>>

\* _build_contract_dfg after the loop over the children.
build_contract_dfg_exit ==
    /\ LoopDone
    /\ TopAst.class = ContractNode
    /\ LET b1 == add_base_contracts(Self, TopAst.base_contracts, Top.dfg_node)
           b2 == exit_scope(b1)
       IN  Return(b2, SubSeq(frames, 1, Len(frames) - 1), Top.dfg_node)
    /\ UNCHANGED <<family, outer_vars, filter_vars, returned, builds, ast_counter, ast_frames>>

\* _build_node_dfg on a FunctionNode, up to the loop over its children.
build_function_dfg(function_node) ==
    /\ function_node.class = FunctionNode
    /\ LET b1 == create_dfg_node(WithNext(function_node), function_node)
           dfg_id == NodeId(b1.node_counter)
           b2 == enter_scope(b1, (IF function_node.name # NoName
                                  THEN function_node.name ELSE "anonymous")
                                 \o "_function")
           b3 == IF function_node.name # NoName
                 THEN [b2 EXCEPT !.function_definitions =
                           OrderedPut(@, function_node.name, dfg_id)]
                 ELSE b2
           b4 == add_parameters(b3, function_node.parameters, function_node,
                                dfg_id, FALSE)
       IN  /\ frames' = Append(frames, [ast_node |-> function_node.node_id,
                                        dfg_node |-> dfg_id])
           /\ Store(b4)
    /\ ast_counter' = Handed
    /\ UNCHANGED <<family, outer_vars, filter_vars, pc, returned, builds, ast_frames>>

\* _build_function_dfg after the loop over the children.
build_function_dfg_exit ==
    /\ LoopDone
    /\ TopAst.class = FunctionNode
    /\ LET b1 == add_parameters(Self, TopAst.return_parameters,
                                TopAst, Top.dfg_node, TRUE)
           b2 == exit_scope(b1)
       IN  Return(b2, SubSeq(frames, 1, Len(frames) - 1), Top.dfg_node)
    /\ UNCHANGED <<family, outer_vars, filter_vars, returned, builds, ast_counter, ast_frames>>

\* _build_node_dfg on a VariableNode: it has no loop, so the call returns.
build_variable_dfg(variable_node) ==
    /\ variable_node.class = VariableNode
    /\ LET b1 == create_dfg_node(WithNext(variable_node), variable_node)
           dfg_id == NodeId(b1.node_counter)
           b2 == record_variable(b1, variable_node, dfg_id)
       IN  Return(b2, frames, dfg_id)
    /\ ast_counter' = Handed
    /\ UNCHANGED <<family, outer_vars, filter_vars, returned, builds, ast_frames>>

\* _build_node_dfg on an ExpressionNode, up to the first operand.
build_expression_dfg(expression_node) ==
    /\ expression_node.class = ExpressionNode
    /\ LET b1 == create_dfg_node(WithNext(expression_node), expression_node)
       IN  /\ frames' = Append(frames, [ast_node |-> expression_node.node_id,
                                        dfg_node |-> NodeId(b1.node_counter)])
           /\ Store(b1)
    /\ ast_counter' = Handed
    /\ UNCHANGED <<family, outer_vars, filter_vars, pc, returned, builds, ast_frames>>

\* _build_expression_dfg after the operands and arguments.
build_expression_dfg_exit ==
    /\ LoopDone
    /\ TopAst.class = ExpressionNode
    /\ LET b1 == handle_variable_reference(Self, TopAst, Top.dfg_node)
       IN  Return(b1, SubSeq(frames, 1, Len(frames) - 1), Top.dfg_node)
    /\ UNCHANGED <<family, outer_vars, filter_vars, returned, builds, ast_counter, ast_frames>>

\* _build_node_dfg on any other node, up to the loop over its children.
build_generic_dfg(ast_node) ==
    /\ ast_node.class = ASTNode
    /\ LET b1 == create_dfg_node(WithNext(ast_node), ast_node)
       IN  /\ frames' = Append(frames, [ast_node |-> ast_node.node_id,
                                        dfg_node |-> NodeId(b1.node_counter)])
           /\ Store(b1)
    /\ ast_counter' = Handed
    /\ UNCHANGED <<family, outer_vars, filter_vars, pc, returned, builds, ast_frames>>

\* _build_generic_dfg after the loop over the children.
build_generic_dfg_exit ==
    /\ LoopDone
    /\ TopAst.class = ASTNode
    /\ Return(Self, SubSeq(frames, 1, Len(frames) - 1), Top.dfg_node)
    /\ UNCHANGED <<family, outer_vars, filter_vars, returned, builds, ast_counter, ast_frames>>

\* The end of build_dfg: the call-resolution pass, then return current_dfg.
build_inter_scope_flows ==
    /\ pc = "post"
    /\ Store(add_function_calls(Self, function_definitions))
    /\ pc' = "returned"
    /\ returned' = "DFG"
    /\ UNCHANGED <<family, outer_vars, filter_vars, builds, ast_counter, ast_frames, frames>>

\* ------------------------------------------------------ ASTBuilder steps
AstTop == ast_frames[Len(ast_frames)]

\* The handler's node has a body between braces.
Braced(frame) == ast[frame.ast_node].class \in {ContractNode, FunctionNode}

\* The closing brace of the body has been built.
Closed(frame) ==
    LET children == ast[frame.ast_node].children
    IN  children # <<>> /\ ast[children[Len(children)]].text = <<"}">>

\* The closing braces the active handlers still have to come to.
Pending == Cardinality({i \in 1..Len(ast_frames) :
                ast_frames[i].open /\ Braced(ast_frames[i]) /\ ~Closed(ast_frames[i])})

\* The nodes of the family "legacy" follow the grammar: contracts in the
\* file, functions, constructors and state variables in a contract, local
\* declarations and expressions in a function.
Grammatical(parent) ==
    {node \in LegacySyntaxLabels :
        node.type \in
            CASE parent.class = ContractNode ->
                    {"function_definition", "constructor_definition",
                     "state_variable_declaration"}
              [] parent.class = FunctionNode ->
                    {"variable_declaration", "call_expression"}
              [] OTHER -> {"contract_declaration"}}

\* The syntax nodes the next call of build_node can be made on: the next
\* given child of the innermost active handler, or a lazily produced child
\* of its body.  A body starts with "{" and ends with "}".
NextSyntax ==
    IF pc # "build" \/ ast_frames = <<>>
    THEN {}
    ELSE IF AstTop.todo # <<>>
    THEN {Head(AstTop.todo)}
    ELSE IF ~AstTop.open
    THEN {}
    ELSE LET fits == {node \in (IF family = "legacy"
                                 THEN Grammatical(ast[AstTop.ast_node])
                                 ELSE SyntaxLabels) :
                         ast_counter + Calls(node) + Pending <= NodeLimit(family)}
         IN  CASE ~Braced(AstTop) -> fits
               [] ast[AstTop.ast_node].children = <<>> -> {Token("{")}
               [] Closed(AstTop) -> {}
               [] OTHER -> fits \cup {Token("}")}

\* generate_node_id of the AST builder
generate_node_id == AstId(ast_counter + 1)

\* The parent argument of the coming build_node call.
AstParent == IF ast_frames = <<>> THEN "" ELSE AstTop.ast_node

\* metadata={"solidity_version": self.solidity_version} of every handler;
\* the version is the default of extract_solidity_version (no pragma).
BuilderMetadata == {<<"solidity_version", "0.4.0">>}

\* The handler has made its node and starts its loop: the node exists (its
\* parent set, in no child list yet) and the call is active.
Begin(ast_node, syntax_node) ==
    /\ ast' = (ast_node.node_id :> [ast_node EXCEPT !.metadata = BuilderMetadata])
              @@ ast
    /\ ast_counter' = ast_counter + 1
    /\ ast_frames' = Append(
           IF ast_frames = <<>>
           THEN <<>>
           ELSE [ast_frames EXCEPT ![Len(ast_frames)].todo =
                    IF @ = <<>> THEN @ ELSE Tail(@)],
           [ast_node |-> ast_node.node_id,
            todo |-> Recursed(syntax_node),
            open |-> HasBody(syntax_node) \/ ast_frames = <<>>])
    /\ UNCHANGED <<family, outer_vars, filter_vars, pc, returned, builds, frames, current_dfg,
                   current_scope, scope_stack, variable_definitions,
                   function_definitions, node_counter, edge_counter>>

\* build_ast up to the loop of the root's handler.  The parser's root is a
\* source_file node, which NodeType does not know: build_generic_node
\* makes it an IDENTIFIER node.  Its children are produced lazily.
build_ast ==
    /\ FromSource
    /\ pc = "idle"
    /\ pc' = "build"
    /\ ast' = (generate_node_id :>
                  [MakeAst(Generic("identifier", <<>>), generate_node_id, "")
                      EXCEPT !.metadata = BuilderMetadata])
              @@ ast
    /\ ast_counter' = ast_counter + 1
    /\ ast_frames' = <<[ast_node |-> generate_node_id, todo |-> <<>>, open |-> TRUE]>>
    /\ UNCHANGED <<family, outer_vars, filter_vars, returned, builds, frames, current_dfg,
                   current_scope, scope_stack, variable_definitions,
                   function_definitions, node_counter, edge_counter>>

build_contract_node(node) ==
    /\ node.type = "contract_declaration"
    /\ Begin(MakeAst([AstLabel(ContractNode, "contract_declaration",
                               extract_contract_name(node), node.text)
                         EXCEPT !.base_contracts = extract_base_contracts(node)],
                     generate_node_id, AstParent),
             node)

build_function_node(node) ==
    /\ node.type = "function_definition"
    /\ Begin(MakeAst([AstLabel(FunctionNode, "function_definition",
                               extract_function_name(node), node.text)
                         EXCEPT !.parameters = extract_parameters(node),
                                !.return_parameters = extract_return_parameters(node),
                                !.visibility = extract_visibility(node),
                                !.state_mutability = extract_state_mutability(node)],
                     generate_node_id, AstParent),
             node)

build_constructor_node(node) ==
    /\ node.type = "constructor_definition"
    /\ Begin(MakeAst([AstLabel(FunctionNode, "constructor_definition",
                               "constructor", node.text)
                         EXCEPT !.parameters = extract_parameters(node),
                                !.visibility = extract_visibility(node),
                                !.state_mutability = extract_state_mutability(node),
                                !.is_constructor = TRUE],
                     generate_node_id, AstParent),
             node)

build_state_variable_node(node) ==
    /\ node.type = "state_variable_declaration"
    /\ Begin(MakeAst([AstLabel(VariableNode, "state_variable_declaration",
                               extract_variable_name(node), node.text)
                         EXCEPT !.is_state_variable = TRUE,
                                !.visibility = extract_visibility(node),
                                !.initial_value = extract_initial_value(node)],
                     generate_node_id, AstParent),
             node)

build_variable_node(node) ==
    /\ node.type = "variable_declaration"
    /\ Begin(MakeAst([AstLabel(VariableNode, "variable_declaration",
                               extract_variable_name(node), node.text)
                         EXCEPT !.initial_value = extract_initial_value(node)],
                     generate_node_id, AstParent),
             node)

\* The node gets no name: ExpressionNode is made without one.
build_expression_node(node) ==
    /\ node.type \in ExpressionTypes
    /\ Begin(MakeAst(AstLabel(ExpressionNode, node.type, NoName, node.text),
                     generate_node_id, AstParent),
             node)

build_generic_node(node) ==
    /\ node.type \notin {"contract_declaration", "function_definition",
                         "constructor_definition", "state_variable_declaration",
                         "variable_declaration"} \cup ExpressionTypes
    /\ Begin(MakeAst(Generic(IF node.type \in NodeTypes
                             THEN node.type ELSE "identifier",
                             node.text),
                     generate_node_id, AstParent),
             node)

\* The innermost build_node call returns its node: the calling handler
\* puts it in its child list or operand slots, build_ast returns the root.
build_node_return ==
    /\ pc = "build"
    /\ ast_frames # <<>>
    /\ AstTop.todo = <<>>
    /\ (AstTop.open /\ Braced(AstTop)) => Closed(AstTop)
    /\ ast_frames' = SubSeq(ast_frames, 1, Len(ast_frames) - 1)
    /\ ast' = Attach(ast, ast[AstTop.ast_node].parent, ast[AstTop.ast_node])
    /\ pc' = IF Len(ast_frames) = 1 THEN "built" ELSE pc
    /\ UNCHANGED <<family, outer_vars, filter_vars, returned, builds, ast_counter, frames, current_dfg,
                   current_scope, scope_stack, variable_definitions,
                   function_definitions, node_counter, edge_counter>>

\* ============================================ dfg_builder/dfg_config.py
\* OutputMode, NodePriority and EdgePriority: the members by their values.
COMPACT == "compact"
STANDARD == "standard"
VERBOSE == "verbose"
CUSTOM == "custom"

CRITICAL == "critical"
IMPORTANT == "important"
AUXILIARY == "auxiliary"
DISCARD == "discard"

MEDIUM == "medium"

\* The field defaults of the dataclass DFGConfig.
DFGConfigDefaults ==
    [output_mode |-> STANDARD,
     skip_node_types |-> {},
     include_node_types |-> {},
     skip_keywords |-> TRUE,
     skip_type_names |-> TRUE,
     skip_operators |-> TRUE,
     skip_punctuation |-> TRUE,
     merge_simple_expressions |-> TRUE,
     skip_literal_nodes |-> FALSE,
     min_node_priority |-> IMPORTANT,
     skip_sequential_control |-> TRUE,
     skip_redundant_edges |-> TRUE,
     merge_parallel_edges |-> TRUE,
     min_edge_priority |-> MEDIUM,
     include_node_text |-> FALSE,
     text_max_length |-> 100,
     store_source_location |-> TRUE,
     include_ast_metadata |-> FALSE,
     enable_caching |-> TRUE,
     max_nodes |-> 10000,
     max_edges |-> 20000]

\* _apply_mode_defaults with the settings of the compact and the standard
\* mode exchanged.
apply_mode_defaults_exchanged(self) ==
    CASE self.output_mode = STANDARD ->
            [self EXCEPT !.skip_keywords = TRUE,
                         !.skip_type_names = TRUE,
                         !.skip_operators = TRUE,
                         !.skip_punctuation = TRUE,
                         !.merge_simple_expressions = TRUE,
                         !.skip_literal_nodes = TRUE,
                         !.min_node_priority = CRITICAL,
                         !.skip_sequential_control = TRUE,
                         !.skip_redundant_edges = TRUE,
                         !.include_node_text = FALSE,
                         !.include_ast_metadata = FALSE]
      [] self.output_mode = COMPACT ->
            [self EXCEPT !.skip_keywords = TRUE,
                         !.skip_type_names = TRUE,
                         !.skip_operators = TRUE,
                         !.skip_punctuation = TRUE,
                         !.merge_simple_expressions = TRUE,
                         !.skip_literal_nodes = FALSE,
                         !.min_node_priority = IMPORTANT,
                         !.skip_sequential_control = TRUE,
                         !.skip_redundant_edges = TRUE,
                         !.include_node_text = FALSE,
                         !.include_ast_metadata = FALSE]
      [] self.output_mode = VERBOSE ->
            [self EXCEPT !.skip_keywords = FALSE,
                         !.skip_type_names = FALSE,
                         !.skip_operators = FALSE,
                         !.skip_punctuation = FALSE,
                         !.merge_simple_expressions = FALSE,
                         !.skip_literal_nodes = FALSE,
                         !.min_node_priority = DISCARD,
                         !.skip_sequential_control = FALSE,
                         !.skip_redundant_edges = FALSE,
                         !.include_node_text = TRUE,
                         !.include_ast_metadata = TRUE]
      [] OTHER -> self

\* _apply_mode_defaults: the assignments of the mode's branch; no branch
\* for CUSTOM.
apply_mode_defaults(self) ==
    CASE self.output_mode = COMPACT ->
            [self EXCEPT !.skip_keywords = TRUE,
                         !.skip_type_names = TRUE,
                         !.skip_operators = TRUE,
                         !.skip_punctuation = TRUE,
                         !.merge_simple_expressions = TRUE,
                         !.skip_literal_nodes = TRUE,
                         !.min_node_priority = CRITICAL,
                         !.skip_sequential_control = TRUE,
                         !.skip_redundant_edges = TRUE,
                         !.include_node_text = FALSE,
                         !.include_ast_metadata = FALSE]
      [] self.output_mode = STANDARD ->
            [self EXCEPT !.skip_keywords = TRUE,
                         !.skip_type_names = TRUE,
                         !.skip_operators = TRUE,
                         !.skip_punctuation = TRUE,
                         !.merge_simple_expressions = TRUE,
                         !.skip_literal_nodes = FALSE,
                         !.min_node_priority = IMPORTANT,
                         !.skip_sequential_control = TRUE,
                         !.skip_redundant_edges = TRUE,
                         !.include_node_text = FALSE,
                         !.include_ast_metadata = FALSE]
      [] self.output_mode = VERBOSE ->
            [self EXCEPT !.skip_keywords = FALSE,
                         !.skip_type_names = FALSE,
                         !.skip_operators = FALSE,
                         !.skip_punctuation = FALSE,
                         !.merge_simple_expressions = FALSE,
                         !.skip_literal_nodes = FALSE,
                         !.min_node_priority = DISCARD,
                         !.skip_sequential_control = FALSE,
                         !.skip_redundant_edges = FALSE,
                         !.include_node_text = TRUE,
                         !.include_ast_metadata = TRUE]
      [] OTHER -> self

\* DFGConfig(**kwargs): the generated __init__ stores each passed argument
\* and the default of every other field, then __post_init__ runs.
DFGConfig(kwargs) == apply_mode_defaults(kwargs @@ DFGConfigDefaults)

compact == DFGConfig([output_mode |-> COMPACT])
standard == DFGConfig([output_mode |-> STANDARD])
verbose == DFGConfig([output_mode |-> VERBOSE])

CRITICAL_NODE_TYPES ==
    {"contract", "interface", "library", "function", "constructor_function",
     "modifier", "state_variable"}

IMPORTANT_NODE_TYPES ==
    {"local_variable", "parameter", "expression", "if_statement",
     "for_statement", "while_statement", "return_statement",
     "struct_declaration", "enum_declaration", "event_definition"}

AUXILIARY_NODE_TYPES ==
    {"number_literal", "string_literal", "boolean_literal",
     "expression_statement", "block"}

KEYWORD_PATTERNS ==
    {"pragma", "solidity", "contract", "function", "public", "private",
     "internal", "external", "pure", "view", "payable", "constant",
     "memory", "storage", "calldata", "returns", "return", "if", "else",
     "for", "while", "do", "break", "continue", "throw", "require",
     "assert", "revert", "emit", "new", "delete", "struct", "enum",
     "mapping", "address", "uint", "int", "bool", "string", "bytes",
     "uint8", "uint16", "uint32", "uint64", "uint128", "uint256",
     "int8", "int16", "int32", "int64", "int128", "int256",
     "bytes1", "bytes2", "bytes4", "bytes8", "bytes16", "bytes32"}

TYPE_KEYWORDS ==
    {"uint", "int", "address", "bool", "string", "bytes",
     "uint8", "uint16", "uint32", "uint64", "uint128", "uint256",
     "int8", "int16", "int32", "int64", "int128", "int256",
     "bytes1", "bytes2", "bytes4", "bytes8", "bytes16", "bytes32",
     "mapping", "struct", "enum"}

OPERATORS ==
    {"+", "-", "*", "/", "%", "**",
     "==", "!=", "<", ">", "<=", ">=",
     "&&", "||", "!",
     "&", "|", "^", "~", "<<", ">>",
     "=", "+=", "-=", "*=", "/=", "%=",
     "++", "--",
     "?", ":"}

PUNCTUATION ==
    {"(", ")", "{", "}", "[", "]",
     ";", ",", ".", "=>"}

\* str.lower() on the ASCII letters, character by character.
UpperCase == "ABCDEFGHIJKLMNOPQRSTUVWXYZ"
LowerCase == "abcdefghijklmnopqrstuvwxyz"

LowerChar(c) ==
    IF \E i \in 1..Len(UpperCase) : SubSeq(UpperCase, i, i) = c
    THEN LET i == CHOOSE i \in 1..Len(UpperCase) : SubSeq(UpperCase, i, i) = c
         IN  SubSeq(LowerCase, i, i)
    ELSE c

RECURSIVE lower(_)
lower(s) ==
    IF s = "" THEN ""
    ELSE LowerChar(SubSeq(s, 1, 1)) \o lower(SubSeq(s, 2, Len(s)))

\* str.strip(): the whitespace at both ends goes.
Whitespace == {" ", "\t", "\n", "\r", "\f"}

RECURSIVE lstrip(_)
lstrip(s) ==
    IF s # "" /\ SubSeq(s, 1, 1) \in Whitespace
    THEN lstrip(SubSeq(s, 2, Len(s)))
    ELSE s

RECURSIVE rstrip(_)
rstrip(s) ==
    IF s # "" /\ SubSeq(s, Len(s), Len(s)) \in Whitespace
    THEN rstrip(SubSeq(s, 1, Len(s) - 1))
    ELSE s

strip(s) == rstrip(lstrip(s))

\* str.endswith(suffix)
endswith(s, suffix) ==
    /\ Len(s) >= Len(suffix)
    /\ SubSeq(s, Len(s) - Len(suffix) + 1, Len(s)) = suffix

\* Python binds the positional arguments of a call of get_node_priority to
\* node_type, node_name, node_text in this order; a parameter that gets no
\* argument is None and has no field here.
BindPriorityArgs(args) ==
    [name \in {"node_type", "node_name", "node_text"} \cap
              { <<"node_type", "node_name", "node_text">>[i] : i \in 1..Len(args) }
        |-> CASE name = "node_type" -> args[1]
              [] name = "node_name" -> args[2]
              [] OTHER -> args[3]]

\* `node_text` as a condition: neither None nor the empty string.
HasText(a) == "node_text" \in DOMAIN a /\ a.node_text # ""

\* get_node_priority that skips the look at the identifier's text.
get_node_priority_by_type(a) ==
    CASE a.node_type \in CRITICAL_NODE_TYPES -> CRITICAL
      [] a.node_type \in IMPORTANT_NODE_TYPES -> IMPORTANT
      [] OTHER -> AUXILIARY

\* get_node_priority on the bound arguments a.
get_node_priority(a) ==
    IF a.node_type \in CRITICAL_NODE_TYPES THEN CRITICAL
    ELSE IF a.node_type \in IMPORTANT_NODE_TYPES THEN IMPORTANT
    ELSE IF a.node_type \in AUXILIARY_NODE_TYPES THEN AUXILIARY
    ELSE IF a.node_type = "identifier" /\ HasText(a)
    THEN LET text_lower == lower(strip(a.node_text))
         IN  IF text_lower \in KEYWORD_PATTERNS THEN DISCARD
             ELSE IF text_lower \in TYPE_KEYWORDS THEN DISCARD
             ELSE IF text_lower \in OPERATORS THEN DISCARD
             ELSE IF text_lower \in PUNCTUATION THEN DISCARD
             ELSE AUXILIARY
    ELSE AUXILIARY

\* The dict priority_order of should_keep_node.
priority_order ==
    (CRITICAL :> 4) @@ (IMPORTANT :> 3) @@ (AUXILIARY :> 2) @@ (DISCARD :> 1)

\* should_keep_node without the test of skip_node_types.
should_keep_node_no_skip_types(node_type, node_name, node_text, cfg) ==
    LET priority == get_node_priority(
                        [node_type |-> node_type, node_name |-> node_name,
                         node_text |-> node_text])
        text_lower == lower(strip(node_text))
    IN  IF cfg.include_node_types # {} /\ node_type \notin cfg.include_node_types
        THEN FALSE
        ELSE IF priority_order[priority] < priority_order[cfg.min_node_priority]
        THEN FALSE
        ELSE IF /\ node_type = "identifier" /\ node_text # ""
                /\ \/ cfg.skip_keywords /\ text_lower \in KEYWORD_PATTERNS
                   \/ cfg.skip_type_names /\ text_lower \in TYPE_KEYWORDS
                   \/ cfg.skip_operators /\ text_lower \in OPERATORS
                   \/ cfg.skip_punctuation /\ text_lower \in PUNCTUATION
        THEN FALSE
        ELSE IF cfg.skip_literal_nodes /\ endswith(node_type, "_literal")
        THEN FALSE
        ELSE TRUE

\* should_keep_node that applies the four vocabulary toggles whatever the
\* configuration says.
should_keep_node_always_skip(node_type, node_name, node_text, cfg) ==
    LET priority == get_node_priority(
                        [node_type |-> node_type, node_name |-> node_name,
                         node_text |-> node_text])
        text_lower == lower(strip(node_text))
    IN  IF cfg.include_node_types # {} /\ node_type \notin cfg.include_node_types
        THEN FALSE
        ELSE IF node_type \in cfg.skip_node_types
        THEN FALSE
        ELSE IF priority_order[priority] < priority_order[cfg.min_node_priority]
        THEN FALSE
        ELSE IF /\ node_type = "identifier" /\ node_text # ""
                /\ text_lower \in KEYWORD_PATTERNS \cup TYPE_KEYWORDS
                                      \cup OPERATORS \cup PUNCTUATION
        THEN FALSE
        ELSE IF cfg.skip_literal_nodes /\ endswith(node_type, "_literal")
        THEN FALSE
        ELSE TRUE

\* should_keep_node, return by return.
should_keep_node(node_type, node_name, node_text, cfg) ==
    LET priority == get_node_priority(
                        [node_type |-> node_type, node_name |-> node_name,
                         node_text |-> node_text])
        text_lower == lower(strip(node_text))
    IN  IF cfg.include_node_types # {} /\ node_type \notin cfg.include_node_types
        THEN FALSE
        ELSE IF node_type \in cfg.skip_node_types
        THEN FALSE
        ELSE IF priority_order[priority] < priority_order[cfg.min_node_priority]
        THEN FALSE
        ELSE IF /\ node_type = "identifier" /\ node_text # ""
                /\ \/ cfg.skip_keywords /\ text_lower \in KEYWORD_PATTERNS
                   \/ cfg.skip_type_names /\ text_lower \in TYPE_KEYWORDS
                   \/ cfg.skip_operators /\ text_lower \in OPERATORS
                   \/ cfg.skip_punctuation /\ text_lower \in PUNCTUATION
        THEN FALSE
        ELSE IF cfg.skip_literal_nodes /\ endswith(node_type, "_literal")
        THEN FALSE
        ELSE TRUE

\* ------------------------------------- json_serializer.py, the text field
\* The part of _serialize_nodes that decides on the "text" entry of one
\* serialized node: the entries it adds.
serialize_node_text(cfg, text) ==
    IF cfg.include_node_text /\ text # ""
    THEN IF cfg.text_max_length > 0 /\ Len(text) > cfg.text_max_length
         THEN [text |-> SubSeq(text, 1, cfg.text_max_length) \o "..."]
         ELSE [text |-> text]
    ELSE <<>>

\* ------------------------------------------------ inputs of dfg_config
\* The node types, names and texts the filter functions are called with.
FilterNodeTypes ==
    {"function", "expression", "number_literal", "block", "identifier",
     "unknown_type"}

FilterNodeNames == {"", "myVariable"}

FilterNodeTexts ==
    {"", "public", "\tPublic ", "function", "uint256", "+", "=>", "myVariable",
     "a very long text"}

\* The keyword arguments DFGConfig is constructed with: none, the ones of
\* the tests, and custom configurations over all the filter parameters.
ConstructorKwargs ==
    {[output_mode |-> CUSTOM,
      skip_keywords |-> k, skip_type_names |-> t, skip_operators |-> o,
      skip_punctuation |-> p, skip_literal_nodes |-> l,
      min_node_priority |-> m,
      include_node_types |-> types[1], skip_node_types |-> types[2]] :
        k \in BOOLEAN, t \in BOOLEAN, o \in BOOLEAN, p \in BOOLEAN, l \in BOOLEAN,
        m \in {CRITICAL, IMPORTANT, AUXILIARY, DISCARD},
        types \in {<<{}, {}>>,
                   <<{"function", "identifier", "number_literal"}, {}>>,
                   <<{}, {"function", "block"}>>}}
    \cup {[skip_keywords |-> k, min_node_priority |-> AUXILIARY] : k \in BOOLEAN}
    \cup {[skip_literal_nodes |-> l, min_node_priority |-> AUXILIARY] : l \in BOOLEAN}
    \cup {[include_node_text |-> TRUE, text_max_length |-> 10]}
    \cup {[output_mode |-> CUSTOM, include_node_text |-> TRUE, text_max_length |-> n] :
            n \in {0, 10}}
    \cup {[output_mode |-> CUSTOM, skip_keywords |-> FALSE, include_node_text |-> TRUE,
           text_max_length |-> 100, min_node_priority |-> CRITICAL]}

\* No DFGConfig has been constructed yet; no function has been called yet.
Unconstructed == [output_mode |-> ""]
NoCall == [function |-> "", args |-> <<>>, result |-> ""]

\* ------------------------------------------------ calls into dfg_config
\* config = DFGConfig(**args)
DFGConfig_init(args) ==
    /\ family = "config"
    /\ config = Unconstructed
    /\ passed_kwargs' = args
    /\ config' = DFGConfig(args)
    /\ UNCHANGED <<family, outer_vars, builder_vars, asked_type, asked_name, asked_text, call>>

\* config = DFGConfig.compact(), .standard() or .verbose()
DFGConfig_preset(preset) ==
    /\ family = "config"
    /\ config = Unconstructed
    /\ passed_kwargs' = [output_mode |-> preset.output_mode]
    /\ config' = preset
    /\ UNCHANGED <<family, outer_vars, builder_vars, asked_type, asked_name, asked_text, call>>

\* get_node_priority called with positional arguments.
get_node_priority_call(args) ==
    /\ family = "config"
    /\ call' = [function |-> "get_node_priority", args |-> args,
                result |-> get_node_priority(BindPriorityArgs(args))]
    /\ UNCHANGED <<family, outer_vars, builder_vars, config, passed_kwargs, asked_type, asked_name, asked_text>>

\* should_keep_node(node_type, node_name, node_text, config)
should_keep_node_call ==
    /\ family = "config"
    /\ config # Unconstructed
    /\ call' = [function |-> "should_keep_node",
                args |-> <<asked_type, asked_name, asked_text>>,
                result |-> should_keep_node(asked_type, asked_name, asked_text, config)]
    /\ UNCHANGED <<family, outer_vars, builder_vars, config, passed_kwargs, asked_type, asked_name, asked_text>>

\* JSONSerializer(config)._serialize_nodes on a node whose AST node has the
\* text node_text.
serialize_nodes_call ==
    /\ family = "config"
    /\ config # Unconstructed
    /\ call' = [function |-> "_serialize_nodes", args |-> <<asked_text>>,
                result |-> serialize_node_text(config, asked_text)]
    /\ UNCHANGED <<family, outer_vars, builder_vars, config, passed_kwargs, asked_type, asked_name, asked_text>>

\* JSONSerializer, DFGVisualizer: not called yet.
NotSerialized == [contract |-> ""]
NotReconstructed == [contract_name |-> ""]

\* SolidityAnalyzer: analyze_source has not been called.
NoAnalysis == [contract |-> ""]

\* _value = None and _error = None, the defaults of the fields.
NoValue == -1
NoError == ""

\* utils/result.py: no Result has been made, no method called.
NoResult == [is_success |-> FALSE, value |-> NoValue, error |-> "no result"]
NoChainCall == [method |-> "", fn |-> "", calls |-> <<>>]

\* BatchDetector: not constructed, detect_batch not called.
NoBatchDetector == [concurrency_limit |-> 0]
NoSemaphore == [_value |-> 0, _waiters |-> <<>>]
NoStats == [raised |-> "", error |-> "", total |-> -1, successful |-> -1,
            failed |-> -1, cached |-> -1]

\* StaticAnalyzer: no LLMConfig, _call_api_with_retry not called.
NoConfig == [model |-> ""]
NoOutcome == [raised |-> FALSE, returns |-> "not called"]


\* SolidityPipeline: not constructed, process_batch not called.
NoRunConfig == [detection_enabled |-> FALSE]
NoBatchResult == [total_files |-> 0]

\* DFGBuilder: analyze_data_flow has not been called.
NoFlow == [start |-> "", end |-> "", path |-> <<>>]

\* The components other than the named one are constructed and not used.
Quiet(component) ==
    /\ analysis = NoAnalysis
    /\ serialized = NotSerialized
    /\ reconstructed = NotReconstructed
    /\ component # "result" =>
          chain_result = NoResult /\ chain_call = NoChainCall /\ chain_steps = 0
    /\ component # "batch" =>
          /\ batch_detector = NoBatchDetector
          /\ semaphore = NoSemaphore
          /\ tasks = <<>>
          /\ batch_stats = NoStats
    /\ component # "retry" =>
          /\ llm_config = NoConfig
          /\ retry_frames = <<>>
          /\ api_log = <<>>
          /\ api_outcome = NoOutcome
    /\ component # "detect" =>
          /\ pipeline_cache = <<>>
          /\ detect_frames = <<>>
          /\ detect_log = <<>>
    /\ component # "runner" =>
          /\ run_config = NoRunConfig
          /\ batch_result = NoBatchResult
          /\ batch_pc = "idle"
    /\ component # "flow" =>
          flow = NoFlow

\* The components around the builders are constructed and not yet used.
NoOuter == Quiet("")

\* The builder's behaviours call nothing of dfg_config.
NoFilter ==
    /\ config = Unconstructed
    /\ passed_kwargs = <<>>
    /\ asked_type = "" /\ asked_name = "" /\ asked_text = ""
    /\ call = NoCall

\* ======================================================= utils/result.py
\* Result.success, Result.failure
Result_success(value) == [is_success |-> TRUE, value |-> value, error |-> NoError]
Result_failure(error) == [is_success |-> FALSE, value |-> NoValue, error |-> error]

\* The functions handed to map; each call returns a value or raises an
\* exception with a message.
MapFunctions == {"double", "add_five", "divide_by_zero"}

\* The functions handed to flat_map; each call returns a Result or raises.
FlatMapFunctions == {"next_success", "stopped", "divide_by_zero"}

Returns(value) == [raised |-> FALSE, returns |-> value]
Raises(message) == [raised |-> TRUE, message |-> message]

CallFunction(fn, x) ==
    CASE fn = "double" -> Returns(x * 2)
      [] fn = "add_five" -> Returns(x + 5)
      [] fn = "next_success" -> Returns(Result_success(x + 1))
      [] fn = "stopped" -> Returns(Result_failure("Stopped"))
      [] OTHER -> Raises("division by zero")

\* The value property raises ValueError on a failure.
ValueOf(self) ==
    IF ~self.is_success
    THEN Raises("Cannot get value from failure: " \o self.error)
    ELSE Returns(self.value)

\* map without the test for a failure: the value is read at once.
Result_map_unguarded(self, fn) ==
    LET read == ValueOf(self)
        outcome == IF read.raised THEN read ELSE CallFunction(fn, read.returns)
    IN  [result |-> IF outcome.raised
                    THEN Result_failure(outcome.message)
                    ELSE Result_success(outcome.returns),
         calls |-> IF read.raised THEN <<>> ELSE <<read.returns>>]

\* map: the Result returned and the arguments fn was called with.
Result_map(self, fn) ==
    IF ~self.is_success
    THEN [result |-> self, calls |-> <<>>]
    ELSE LET outcome == CallFunction(fn, ValueOf(self).returns)
         IN  [result |-> IF outcome.raised
                         THEN Result_failure(outcome.message)
                         ELSE Result_success(outcome.returns),
              calls |-> <<self.value>>]

\* flat_map: what fn returned is the result.
Result_flat_map(self, fn) ==
    IF ~self.is_success
    THEN [result |-> self, calls |-> <<>>]
    ELSE LET outcome == CallFunction(fn, ValueOf(self).returns)
         IN  [result |-> IF outcome.raised
                         THEN Result_failure(outcome.message)
                         ELSE outcome.returns,
              calls |-> <<self.value>>]

\* result.map(fn) on the Result the chain has come to.
map_call(fn) ==
    /\ family = "result"
    /\ chain_steps < MaxChain
    /\ LET done == Result_map(chain_result, fn)
       IN  /\ chain_result' = done.result
           /\ chain_call' = [method |-> "map", fn |-> fn, calls |-> done.calls]
    /\ chain_steps' = chain_steps + 1
    /\ UNCHANGED <<core_vars, builder_vars, filter_vars, besides_result>>

\* result.flat_map(fn) on the Result the chain has come to.
flat_map_call(fn) ==
    /\ family = "result"
    /\ chain_steps < MaxChain
    /\ LET done == Result_flat_map(chain_result, fn)
       IN  /\ chain_result' = done.result
           /\ chain_call' = [method |-> "flat_map", fn |-> fn, calls |-> done.calls]
    /\ chain_steps' = chain_steps + 1
    /\ UNCHANGED <<core_vars, builder_vars, filter_vars, besides_result>>

\* ========================================================= BatchDetector
\* What the JSON files hold: nothing that parses, or one of two documents.
FileContents == {"", "{a}", "{b}"}

\* json.load(f): a file that holds no JSON document raises.
json_load(content) ==
    IF content = "" THEN Raises("Expecting value") ELSE Returns(content)

\* _get_cache_key: the digest of the file's bytes.
get_cache_key(content) == "md5(" \o content \o ")"

\* The values --concurrency passes to the constructor.
ConcurrencyLimits == (0 - 1)..MaxConcurrency

\* asyncio.Semaphore(value); a negative value raises ValueError.
Semaphore(value) ==
    IF value < 0
    THEN Raises("Semaphore initial value must be >= 0")
    ELSE Returns([_value |-> value, _waiters |-> <<>>])

\* Semaphore.locked: no slot can be taken at once.
locked(sem) == sem._value = 0 \/ sem._waiters # <<>>

\* A release that is lost: the slot stays taken and nobody is woken.
Semaphore_release_lost(sem, ts) == [sem |-> sem, ts |-> ts]

\* Semaphore.release: the slot goes to the first waiter, which is woken, or
\* back to the counter.
Semaphore_release(sem, ts) ==
    IF sem._waiters = <<>>
    THEN [sem |-> [sem EXCEPT !._value = @ + 1], ts |-> ts]
    ELSE [sem |-> [sem EXCEPT !._waiters = Tail(@)],
          ts |-> [ts EXCEPT ![Head(sem._waiters)].pc = "woken"]]

\* The entries process_file returns.
SuccessEntry(file, from_cache) ==
    [file_name |-> file, status |-> "success", from_cache |-> from_cache, error |-> NoError]
ErrorEntry(file, error_msg) ==
    [file_name |-> file, status |-> "error", from_cache |-> FALSE, error |-> error_msg]

\* return inside `async with semaphore`: the entry is the coroutine's result
\* and __aexit__ releases the slot.
return_entry(file, entry, sem, ts) ==
    Semaphore_release(sem, [ts EXCEPT ![file] = [pc |-> "done",
                                                 content |-> @.content,
                                                 returns |-> Append(@.returns, entry)]])

\* _load_from_cache: the hit or miss is counted when the cache is enabled.
load_from_cache(self, cache_key) ==
    IF ~self.enable_cache
    THEN [hit |-> FALSE, self |-> self]
    ELSE IF cache_key \in self.cache
         THEN [hit |-> TRUE, self |-> [self EXCEPT !.stats.cache_hits = @ + 1]]
         ELSE [hit |-> FALSE, self |-> [self EXCEPT !.stats.cache_misses = @ + 1]]

\* _save_to_cache
save_to_cache(self, cache_key) ==
    IF ~self.enable_cache THEN self ELSE [self EXCEPT !.cache = @ \cup {cache_key}]

\* The except clause of process_file: the error is recorded.
record_error(self, file, error_msg) ==
    [self EXCEPT !.stats.errors = Append(@, [file |-> file, error |-> error_msg])]

\* process_file with the slot taken, from the open of the file to the await
\* of pipeline.detect or to the return before it.
guarded_section(file, content, sem) ==
    LET data == json_load(content)
        looked == load_from_cache(batch_detector, get_cache_key(content))
        left == CASE data.raised -> return_entry(file, ErrorEntry(file, data.message), sem, tasks)
                  [] looked.hit -> return_entry(file, SuccessEntry(file, TRUE), sem, tasks)
                  [] OTHER -> [sem |-> sem,
                               ts |-> [tasks EXCEPT ![file].pc = "detecting",
                                                    ![file].content = content]]
    IN  /\ batch_detector' = (IF data.raised
                              THEN record_error(batch_detector, file, data.message)
                              ELSE looked.self)
        /\ semaphore' = left.sem
        /\ tasks' = left.ts

\* _calculate_statistics: the counts over the entries gather returned.
calculate_statistics(results) ==
    LET successful == {i \in DOMAIN results : results[i].status = "success"}
        failed == {i \in DOMAIN results : results[i].status = "error"}
        cached == {i \in successful : results[i].from_cache}
    IN  [raised |-> "", error |-> "",
         total |-> Len(results),
         successful |-> Cardinality(successful),
         failed |-> Cardinality(failed),
         cached |-> Cardinality(cached)]

\* detect_batch up to gather: the files are listed and cut to the limit
\* (0: none given), the semaphore and one coroutine per file are made.
detect_batch(found, limit) ==
    /\ family = "batch"
    /\ tasks = <<>> /\ batch_stats = NoStats
    /\ LET json_files == IF limit > 0 /\ limit < found THEN limit ELSE found
           made == Semaphore(batch_detector.concurrency_limit)
       IN  IF found = 0
           THEN /\ batch_stats' = [raised |-> "", error |-> "no files found",
                                   total |-> 0, successful |-> 0, failed |-> 0,
                                   cached |-> 0]
                /\ UNCHANGED <<semaphore, tasks>>
           ELSE IF made.raised
           THEN /\ batch_stats' = [NoStats EXCEPT !.raised = "ValueError"]
                /\ UNCHANGED <<semaphore, tasks>>
           ELSE /\ semaphore' = made.returns
                /\ tasks' = [file \in 1..json_files |->
                                [pc |-> "created", content |-> "", returns |-> <<>>]]
                /\ UNCHANGED batch_stats
    /\ batch_detector' = [batch_detector EXCEPT
                            !.stats = [cache_hits |-> 0, cache_misses |-> 0, errors |-> <<>>]]
    /\ UNCHANGED <<core_vars, builder_vars, filter_vars, besides_batch>>

\* The coroutine of a file runs for the first time: `async with semaphore`
\* takes a slot and goes on, or joins the waiters.
process_file_start(file) ==
    /\ family = "batch"
    /\ file \in DOMAIN tasks
    /\ tasks[file].pc = "created"
    /\ IF locked(semaphore)
       THEN /\ semaphore' = [semaphore EXCEPT !._waiters = Append(@, file)]
            /\ tasks' = [tasks EXCEPT ![file].pc = "waiting"]
            /\ UNCHANGED batch_detector
       ELSE \E content \in FileContents :
               guarded_section(file, content, [semaphore EXCEPT !._value = @ - 1])
    /\ UNCHANGED <<core_vars, builder_vars, filter_vars, besides_batch, batch_stats>>

\* A waiter that was handed a slot runs again.
process_file_woken(file) ==
    /\ family = "batch"
    /\ file \in DOMAIN tasks
    /\ tasks[file].pc = "woken"
    /\ \E content \in FileContents : guarded_section(file, content, semaphore)
    /\ UNCHANGED <<core_vars, builder_vars, filter_vars, besides_batch, batch_stats>>

\* pipeline.detect returns: the result is cached and a success entry returned.
detect_returned(file) ==
    /\ family = "batch"
    /\ file \in DOMAIN tasks
    /\ tasks[file].pc = "detecting"
    /\ batch_detector' = save_to_cache(batch_detector, get_cache_key(tasks[file].content))
    /\ LET left == return_entry(file, SuccessEntry(file, FALSE), semaphore, tasks)
       IN  semaphore' = left.sem /\ tasks' = left.ts
    /\ UNCHANGED <<core_vars, builder_vars, filter_vars, besides_batch, batch_stats>>

\* pipeline.detect raises: the except clause returns an error entry.
detect_raised(file) ==
    /\ family = "batch"
    /\ file \in DOMAIN tasks
    /\ tasks[file].pc = "detecting"
    /\ batch_detector' = record_error(batch_detector, file, "detect failed")
    /\ LET left == return_entry(file, ErrorEntry(file, "detect failed"), semaphore, tasks)
       IN  semaphore' = left.sem /\ tasks' = left.ts
    /\ UNCHANGED <<core_vars, builder_vars, filter_vars, besides_batch, batch_stats>>

\* gather returns once every coroutine has; the statistics are returned.
gather_returned ==
    /\ family = "batch"
    /\ tasks # <<>> /\ batch_stats = NoStats
    /\ \A file \in DOMAIN tasks : tasks[file].pc = "done"
    /\ batch_stats' = calculate_statistics([file \in DOMAIN tasks |-> tasks[file].returns[1]])
    /\ UNCHANGED <<core_vars, builder_vars, filter_vars, besides_batch,
                   batch_detector, semaphore, tasks>>

\* ======================================================== StaticAnalyzer
\* Python's  `pattern in text`  on strings.
substring_in(pattern, text) ==
    \E i \in 1..(Len(text) - Len(pattern) + 1) :
        SubSeq(text, i, i + Len(pattern) - 1) = pattern

\* 2 ** n
RECURSIVE Pow2(_)
Pow2(n) == IF n = 0 THEN 1 ELSE 2 * Pow2(n - 1)

\* min(a, b)
min(a, b) == IF a <= b THEN a ELSE b

\* What str(e) is for the exceptions client.chat.completions.create raises.
ApiErrors ==
    { "Error code: 429", "Rate limit reached", "Too Many Requests",
      "Connection error.", "Read timeout", "Network is unreachable",
      "Request timed out.", "Error code: 400" }

\* What the API call comes to: the content of the message, or an exception.
ApiOutcomes == {Returns("{}")} \cup {Raises(error_str) : error_str \in ApiErrors}

\* The tests of the except clause on error_str.
rate_limit_test(error_str) ==
    \/ substring_in("429", error_str)
    \/ substring_in("rate limit", lower(error_str))
    \/ substring_in("too many requests", lower(error_str))

network_test(error_str) ==
    \E err \in {"timeout", "connection", "network"} : substring_in(err, lower(error_str))

\* The errors each test holds of, found once.
RateLimitErrors == {error_str \in ApiErrors : rate_limit_test(error_str)}
NetworkErrors == {error_str \in ApiErrors : network_test(error_str)}

is_rate_limit_error(error_str) == error_str \in RateLimitErrors
is_network_error(error_str) == error_str \in NetworkErrors

\* A retry that is allowed once more than the limit says.
may_retry_at_limit(retry_count, attempts) == retry_count <= attempts

\* retry_count < attempts
may_retry(retry_count, attempts) == retry_count < attempts

\* The cap of the backoff after a network error, in seconds.
NetworkBackoffCap == 10

\* The except clause of _call_api_with_retry: sleep and call again, raise
\* the exception of the exhausted retries, or raise what was caught.
handle_api_error(cfg, retry_count, error_str) ==
    CASE is_rate_limit_error(error_str) ->
            IF may_retry(retry_count, cfg.rate_limit_retry_attempts)
            THEN [retry |-> TRUE,
                  backoff |-> min(cfg.initial_backoff * Pow2(retry_count), cfg.max_backoff)]
            ELSE [retry |-> FALSE, backoff |-> 0,
                  raised |-> "rate limit retries exhausted: " \o error_str]
      [] is_network_error(error_str) ->
            IF may_retry(retry_count, cfg.retry_attempts)
            THEN [retry |-> TRUE, backoff |-> min(Pow2(retry_count), NetworkBackoffCap)]
            ELSE [retry |-> FALSE, backoff |-> 0,
                  raised |-> "network retries exhausted: " \o error_str]
      [] OTHER -> [retry |-> FALSE, backoff |-> 0, raised |-> error_str]

\* analyze_code calls _call_api_with_retry(contract_data): retry_count is 0.
call_api_with_retry ==
    /\ family = "retry"
    /\ retry_frames = <<>> /\ api_outcome = NoOutcome
    /\ retry_frames' = <<0>>
    /\ UNCHANGED <<llm_config, api_log, api_outcome>>
    /\ UNCHANGED <<core_vars, builder_vars, filter_vars, besides_retry>>

\* The innermost call makes its API call, which comes to `response`: the
\* content is returned through every call, or the except clause sleeps and
\* calls again with retry_count + 1, or the exception leaves every call.
api_call(response) ==
    /\ family = "retry"
    /\ retry_frames # <<>>
    /\ LET retry_count == retry_frames[Len(retry_frames)]
       IN  IF ~response.raised
           THEN /\ api_log' = Append(api_log, [retry_count |-> retry_count, error |-> NoError,
                                               retried |-> FALSE, backoff |-> 0])
                /\ retry_frames' = <<>>
                /\ api_outcome' = Returns(response.returns)
           ELSE LET handled == handle_api_error(llm_config, retry_count, response.message)
                IN  /\ api_log' = Append(api_log, [retry_count |-> retry_count,
                                                    error |-> response.message,
                                                    retried |-> handled.retry,
                                                    backoff |-> handled.backoff])
                    /\ IF handled.retry
                       THEN /\ retry_frames' = Append(retry_frames, retry_count + 1)
                            /\ UNCHANGED api_outcome
                       ELSE /\ retry_frames' = <<>>
                            /\ api_outcome' = Raises(handled.raised)
    /\ UNCHANGED llm_config
    /\ UNCHANGED <<core_vars, builder_vars, filter_vars, besides_retry>>

\* ================================================ PonziDetectionPipeline
\* The contract data detect is called with.
ContractData == {"x", "y"}

\* _get_code_hash: the digest of the encoded text.
get_code_hash(code) == "md5(" \o code \o ")"

\* `key in d` on a dict held as a set of <<key, value>> pairs.
HasKey(d, key) == \E item \in d : item[1] = key

\* ClassificationResult
ClassificationResult(is_ponzi, confidence, risk_level, reasoning) ==
    [is_ponzi |-> is_ponzi, confidence |-> confidence, risk_level |-> risk_level,
     reasoning |-> reasoning]

\* What analyze_code comes to: a classification, its own default after an
\* API failure, or an exception.
AnalyzerOutcomes ==
    { Returns(ClassificationResult(TRUE, 1, "high", "pays old investors with new deposits")),
      Returns(ClassificationResult(FALSE, 0, "unknown", "classification failed: Error code: 400")),
      Raises("analyzer failed") }

\* An entry as an earlier version wrote it to detection_cache.json, with the
\* report beside the classification.
ReportedEntry(code) ==
    { <<"contract_name", "Unknown">>,
      <<"analysis_report", "report">>,
      <<"classification_result", ClassificationResult(FALSE, 1, "low", "no scheme")>>,
      <<"code_hash", get_code_hash(code)>> }

\* result_dict of detect: the report is not among its keys.
result_dict(contract_name, result, code_hash) ==
    { <<"contract_name", contract_name>>,
      <<"classification_result", result>>,
      <<"code_hash", code_hash>> }

\* The cache test of detect: the entry is there and holds both keys.
cache_hit(cache, code_hash) ==
    /\ code_hash \in DOMAIN cache
    /\ HasKey(cache[code_hash], "analysis_report")
    /\ HasKey(cache[code_hash], "classification_result")

\* self.cache[code_hash] = result_dict
cache_put(cache, code_hash, entry) ==
    [h \in DOMAIN cache \cup {code_hash} |-> IF h = code_hash THEN entry ELSE cache[h]]

\* detect(contract_data) up to the return of the cached entry or to the
\* await of analyze_code.
detect(contract_data) ==
    /\ family = "detect"
    /\ Len(detect_frames) + Cardinality({k \in DOMAIN detect_log :
                                            detect_log[k].event = "return"}) < MaxDetects
    /\ LET code_hash == get_code_hash(contract_data)
           id == Cardinality({k \in DOMAIN detect_log : detect_log[k].event = "call"}) + 1
           called == [event |-> "call", id |-> id, data |-> contract_data, entry |-> {}]
       IN  IF cache_hit(pipeline_cache, code_hash)
           THEN /\ detect_log' = detect_log \o
                       << called,
                          [event |-> "return", id |-> id, data |-> contract_data,
                           entry |-> pipeline_cache[code_hash]] >>
                /\ UNCHANGED detect_frames
           ELSE /\ detect_log' = detect_log \o
                       << called,
                          [event |-> "analyze_code", id |-> id, data |-> contract_data,
                           entry |-> {}] >>
                /\ detect_frames' = Append(detect_frames, [id |-> id, data |-> contract_data])
    /\ UNCHANGED pipeline_cache
    /\ UNCHANGED <<core_vars, builder_vars, filter_vars, besides_detect>>

\* analyze_code comes back to a detect call: the classification, or the
\* default of the except clause, is stored in the cache and returned.
detect_analyzed(k, outcome) ==
    /\ family = "detect"
    /\ k \in DOMAIN detect_frames
    /\ LET frame == detect_frames[k]
           code_hash == get_code_hash(frame.data)
           result == IF outcome.raised
                     THEN ClassificationResult(FALSE, 0, "unknown",
                                               "exception: " \o outcome.message)
                     ELSE outcome.returns
           entry == result_dict("Unknown", result, code_hash)
       IN  /\ pipeline_cache' = cache_put(pipeline_cache, code_hash, entry)
           /\ detect_log' = Append(detect_log, [event |-> "return", id |-> frame.id,
                                                data |-> frame.data, entry |-> entry])
    /\ detect_frames' = [j \in 1..(Len(detect_frames) - 1) |->
                            IF j < k THEN detect_frames[j] ELSE detect_frames[j + 1]]
    /\ UNCHANGED <<core_vars, builder_vars, filter_vars, besides_detect>>

\* ====================================================== SolidityPipeline
\* d[key], on a dict held as a set of <<key, value>> pairs.
Get(d, key) == (CHOOSE item \in d : item[1] = key)[2]

\* What open(source_file).read() comes to.
ReadOutcomes == {Returns("contract C {}"), Raises("No such file or directory")}

\* What analyze_source returns: a failure with its error, or a success
\* whose json_file is there when save_to_file wrote it.
AnalysisResults ==
    { {<<"success", FALSE>>, <<"error", "Failed to build AST">>},
      {<<"success", TRUE>>, <<"json_file", "output/dfgs/C_dfg.json">>},
      {<<"success", TRUE>>} }

\* What asyncio.run(detector.detect_from_json_file(...)) and the writing of
\* its result come to.
DetectionOutcomes == {Returns("detection_result"), Raises("detection failed")}

\* What visualize_from_json comes to.
VisualizationOutcomes == {Returns(TRUE), Returns(FALSE), Raises("graphviz not found")}

\* The steps of a result before any step is taken.
NoSteps ==
    [read_source |-> "", build_ast |-> "", build_dfg |-> "", detection |-> "",
     visualization |-> ""]

\* Step 4 of process_file.
detection_step(cfg, detected) ==
    IF ~cfg.detection_enabled THEN "skipped"
    ELSE IF detected.raised THEN "failed" ELSE "success"

\* Step 5 of process_file.
visualization_step(cfg, visualized) ==
    IF ~cfg.enable_visualization THEN "skipped"
    ELSE IF visualized.raised THEN "failed"
    ELSE IF visualized.returns THEN "success" ELSE "failed"

\* process_file: the result dict it returns, for what the file read, the
\* analysis, the detection and the visualization come to.
process_file(cfg, read, analysis_result, detected, visualized) ==
    IF read.raised
    THEN { <<"steps", NoSteps>>, <<"status", "failed">>, <<"error", read.message>> }
    ELSE IF ~Get(analysis_result, "success")
    THEN { <<"steps", [NoSteps EXCEPT !.read_source = "success", !.build_ast = "failed"]>>,
           <<"status", "failed">>,
           <<"error", Get(analysis_result, "error")>> }
    ELSE IF ~HasKey(analysis_result, "json_file")
    THEN { <<"steps", [NoSteps EXCEPT !.read_source = "success", !.build_ast = "success",
                                      !.build_dfg = "failed"]>> }
    ELSE { <<"steps", [read_source |-> "success", build_ast |-> "success",
                       build_dfg |-> "success",
                       detection |-> detection_step(cfg, detected),
                       visualization |-> visualization_step(cfg, visualized)]>>,
           <<"status", "success">> }

\* process_batch up to its loop.
process_batch(source_files) ==
    /\ family = "runner"
    /\ batch_pc = "idle"
    /\ batch_result' = [total_files |-> source_files, results |-> <<>>,
                        summary |-> [success |-> 0, failed |-> 0]]
    /\ batch_pc' = "loop"
    /\ UNCHANGED run_config
    /\ UNCHANGED <<core_vars, builder_vars, filter_vars, besides_runner>>

\* One round of the loop: the next file is processed, its result appended
\* and counted by result["status"], which raises KeyError when the key is
\* not there.
process_batch_round(read, analysis_result, detected, visualized) ==
    /\ family = "runner"
    /\ batch_pc = "loop"
    /\ Len(batch_result.results) < batch_result.total_files
    /\ LET result == process_file(run_config, read, analysis_result, detected, visualized)
           appended == [batch_result EXCEPT !.results = Append(@, result)]
       IN  IF ~HasKey(result, "status")
           THEN /\ batch_result' = appended
                /\ batch_pc' = "raised"
           ELSE /\ batch_result' =
                      IF Get(result, "status") = "success"
                      THEN [appended EXCEPT !.summary.success = @ + 1]
                      ELSE [appended EXCEPT !.summary.failed = @ + 1]
                /\ UNCHANGED batch_pc
    /\ UNCHANGED run_config
    /\ UNCHANGED <<core_vars, builder_vars, filter_vars, besides_runner>>

\* The loop is over: batch_result is saved and returned.
process_batch_return ==
    /\ family = "runner"
    /\ batch_pc = "loop"
    /\ Len(batch_result.results) = batch_result.total_files
    /\ batch_pc' = "returned"
    /\ UNCHANGED <<run_config, batch_result>>
    /\ UNCHANGED <<core_vars, builder_vars, filter_vars, besides_runner>>

\* ======================================== DFGBuilder.analyze_data_flow
\* The ids of the nodes of the DFG, and the synthetic id of an initial value.
FlowNodeIds == {NodeId(1), NodeId(2), NodeId(3)}
FlowTargetIds == FlowNodeIds \cup {InitPlaceholder(NodeId(1))}

\* The edges DFG.add_edge is given: data dependencies between any two ids,
\* and calls from one node to the next.
FlowEdges ==
    {<<source, target, "data_dependency">> : source \in FlowNodeIds, target \in FlowTargetIds}
      \cup {<<NodeId(k), NodeId(k + 1), "function_call">> : k \in 1..2}

\* Every edge is followed, whatever its type.
any_edge_type(edge) == TRUE

\* edge.edge_type == EdgeType.DATA_DEPENDENCY
is_data_dependency(edge) == edge.edge_type = "data_dependency"

\* get_outgoing_edges, then the test of the loop: the targets of the data
\* dependencies that leave node_id, in the order the edges were added.
data_targets(dfg, node_id) ==
    LET in_order == [k \in 1..Cardinality(DOMAIN dfg.edges) |-> dfg.edges[EdgeId(k)]]
        followed == SelectSeq(in_order,
                              LAMBDA edge : edge.source_node_id = node_id
                                            /\ is_data_dependency(edge))
    IN  [k \in 1..Len(followed) |-> followed[k].target_node_id]

\* dfs of analyze_data_flow, with `visited` passed along and handed back:
\* found, the path so far at the target, and the ids visited.
RECURSIVE dfs(_, _, _, _, _)
RECURSIVE dfs_edges(_, _, _, _, _, _)
dfs(dfg, current_id, target_id, current_path, visited) ==
    IF current_id = target_id
    THEN [found |-> TRUE, path |-> current_path, visited |-> visited]
    ELSE IF current_id \in visited
    THEN [found |-> FALSE, path |-> <<>>, visited |-> visited]
    ELSE dfs_edges(dfg, data_targets(dfg, current_id), 1, target_id,
                   Append(current_path, current_id), visited \cup {current_id})

\* The loop over the outgoing edges, from the i-th on.
dfs_edges(dfg, targets, i, target_id, current_path, visited) ==
    IF i > Len(targets)
    THEN [found |-> FALSE, path |-> <<>>, visited |-> visited]
    ELSE LET below == dfs(dfg, targets[i], target_id, current_path, visited)
         IN  IF below.found
             THEN below
             ELSE dfs_edges(dfg, targets, i + 1, target_id, current_path, below.visited)

\* analyze_data_flow: `path` after dfs(start, end, []).
analyze_data_flow_path(dfg, start_node_id, end_node_id) ==
    dfs(dfg, start_node_id, end_node_id, <<>>, {}).path

\* current_dfg.add_edge(DFGEdge(...)) on the DFG the builder holds.
dfg_add_edge(source_id, target_id, edge_type) ==
    /\ family = "flow"
    /\ flow = NoFlow
    /\ edge_counter < MaxFlowEdges
    /\ Store(add_edge(Self, source_id, target_id, edge_type, {}))
    /\ UNCHANGED <<pc, returned, builds, ast_counter, ast_frames, frames>>
    /\ UNCHANGED <<core_vars, filter_vars, besides_flow, flow>>

\* analyze_data_flow(start_node_id, end_node_id)
analyze_data_flow(start_node_id, end_node_id) ==
    /\ family = "flow"
    /\ flow' = [start |-> start_node_id, end |-> end_node_id,
                path |-> analyze_data_flow_path(current_dfg, start_node_id, end_node_id)]
    /\ UNCHANGED <<core_vars, builder_vars, filter_vars, besides_flow>>

\* ---------------------------------------------------- Solidity04xHandler
\* metadata[key] = value, on a dict held as a set of <<key, value>> pairs.
MetaPut(metadata, key, value) ==
    {item \in metadata : item[1] # key} \cup {<<key, value>>}

\* is_legacy_constructor: a named function of the contract's name that is
\* not marked as constructor yet.
is_legacy_constructor(function_node, contract_name) ==
    /\ function_node.name # NoName
    /\ function_node.name = contract_name
    /\ ~function_node.is_constructor

\* process_legacy_state_mutability: constant stands for view.
process_legacy_state_mutability(function_node) ==
    IF function_node.state_mutability = "constant"
    THEN "view"
    ELSE function_node.state_mutability

\* process_constant_modifier: the key has_constant of a non-empty metadata,
\* False when it is not there (nothing sets it); the text is looked at only
\* when the metadata is empty.
process_constant_modifier(variable_node) ==
    IF variable_node.metadata # {}
    THEN <<"has_constant", "True">> \in variable_node.metadata
    ELSE Contains(variable_node.text, <<"constant">>)

\* _add_function_legacy_metadata that records the legacy constructor in the
\* metadata and leaves is_constructor as it was.
add_function_legacy_metadata_unmarked(tree, function_node) ==
    LET parent_name == IF function_node.parent # ""
                       THEN tree[function_node.parent].name ELSE NoName
        n1 == IF parent_name # NoName
                 /\ is_legacy_constructor(function_node, parent_name)
              THEN [function_node EXCEPT
                       !.metadata = MetaPut(@, "is_legacy_constructor", "True")]
              ELSE function_node
        legacy_mutability == process_legacy_state_mutability(n1)
        n2 == IF legacy_mutability # "" /\ legacy_mutability # n1.state_mutability
              THEN [n1 EXCEPT
                       !.metadata = MetaPut(@, "legacy_state_mutability",
                                            legacy_mutability),
                       !.state_mutability = legacy_mutability]
              ELSE n1
    IN  IF n2.visibility = ""
        THEN [n2 EXCEPT !.metadata = MetaPut(@, "default_visibility", "public"),
                        !.visibility = "public"]
        ELSE n2

\* _add_function_legacy_metadata: a function of its parent's name becomes a
\* constructor, constant becomes view, no visibility becomes public.
add_function_legacy_metadata(tree, function_node) ==
    LET parent_name == IF function_node.parent # ""
                       THEN tree[function_node.parent].name ELSE NoName
        n1 == IF parent_name # NoName
                 /\ is_legacy_constructor(function_node, parent_name)
              THEN [function_node EXCEPT
                       !.metadata = MetaPut(@, "is_legacy_constructor", "True"),
                       !.is_constructor = TRUE]
              ELSE function_node
        legacy_mutability == process_legacy_state_mutability(n1)
        n2 == IF legacy_mutability # "" /\ legacy_mutability # n1.state_mutability
              THEN [n1 EXCEPT
                       !.metadata = MetaPut(@, "legacy_state_mutability",
                                            legacy_mutability),
                       !.state_mutability = legacy_mutability]
              ELSE n1
    IN  IF n2.visibility = ""
        THEN [n2 EXCEPT !.metadata = MetaPut(@, "default_visibility", "public"),
                        !.visibility = "public"]
        ELSE n2

\* _add_variable_legacy_metadata: a state variable without a visibility
\* becomes internal.
add_variable_legacy_metadata(variable_node) ==
    LET n1 == IF process_constant_modifier(variable_node)
              THEN [variable_node EXCEPT
                       !.metadata = MetaPut(@, "has_constant_modifier", "True")]
              ELSE variable_node
    IN  IF n1.is_state_variable /\ n1.visibility = ""
        THEN [n1 EXCEPT !.metadata = MetaPut(@, "default_visibility", "internal"),
                        !.visibility = "internal"]
        ELSE n1

\* add_legacy_metadata: the version keys, then the part of the node's
\* class.  The keys read off the node's text (global variables, now,
\* suicide, call and type syntax) are metadata only and are left out.
add_legacy_metadata(tree, node) ==
    LET tagged == [node EXCEPT
                      !.metadata = MetaPut(MetaPut(@, "solidity_version", "0.4.x"),
                                           "is_legacy", "True")]
    IN  CASE node.class = FunctionNode -> add_function_legacy_metadata(tree, tagged)
          [] node.class = VariableNode -> add_variable_legacy_metadata(tagged)
          [] OTHER -> tagged

\* The nodes _process_node_legacy_features comes to from a node: the node
\* and what it reaches through the children lists.
RECURSIVE LegacyReached(_, _)
LegacyReached(tree, id) ==
    LET children == tree[id].children
    IN  {id} \cup UNION {LegacyReached(tree, children[i]) : i \in 1..Len(children)}

\* _process_legacy_features on the tree build_ast returned, as
\* analyze_source does before it calls build_dfg.
process_legacy_features ==
    /\ family = "legacy"
    /\ pc = "built"
    /\ pc' = "annotated"
    /\ LET reached == LegacyReached(ast, Root)
       IN  ast' = [id \in DOMAIN ast |->
                      IF id \in reached
                      THEN add_legacy_metadata(ast, ast[id])
                      ELSE ast[id]]
    /\ UNCHANGED <<family, outer_vars, filter_vars, returned, builds, ast_counter,
                   ast_frames, frames, current_dfg, current_scope, scope_stack,
                   variable_definitions, function_definitions, node_counter,
                   edge_counter>>

\* ------------------------------------------------------ SolidityAnalyzer
\* The DFGBuilder instance as an object: the attributes __init__ sets.
BuilderObject ==
    [solidity_version |-> "0.4.x", legacy_handler |-> "None",
     current_dfg |-> current_dfg, current_scope |-> current_scope,
     scope_stack |-> scope_stack,
     variable_definitions |-> variable_definitions,
     function_definitions |-> function_definitions,
     node_counter |-> node_counter, edge_counter |-> edge_counter]

\* Reading an attribute raises AttributeError when the object has none of
\* that name.
HasAttribute(object, name) == name \in DOMAIN object

AttributeError(name) ==
    "'DFGBuilder' object has no attribute '" \o name \o "'"

\* _count_ast_nodes: the node and, recursively, the members of its children
\* list (operands and arguments of expressions are not in that list).
RECURSIVE count_ast_nodes(_)
count_ast_nodes(id) ==
    LET RECURSIVE Total(_)
        Total(children) ==
            IF children = <<>> THEN 0
            ELSE count_ast_nodes(Head(children)) + Total(Tail(children))
    IN  1 + Total(ast[id].children)

\* _extract_contract_name: the root's name if it is a contract, else the
\* name of the first contract found through the children lists; "" is None.
RECURSIVE analyzer_extract_contract_name(_)
analyzer_extract_contract_name(id) ==
    LET RECURSIVE Search(_)
        Search(children) ==
            IF children = <<>> THEN ""
            ELSE LET child == Head(children)
                     found == IF ast[child].class = ContractNode
                              THEN ast[child].name
                              ELSE analyzer_extract_contract_name(child)
                 IN  IF found # "" THEN found ELSE Search(Tail(children))
    IN  IF ast[id].class = ContractNode THEN ast[id].name
        ELSE Search(ast[id].children)

\* The contract_name argument's default.
UnknownContract == "Unknown"

\* analyze_source from the return of build_dfg (both builders returned an
\* object): the result dictionary, or the failure dictionary of the except
\* clause when a statement raises.  No output file is requested.
analyze_source ==
    /\ FromSource
    /\ pc = "returned"
    /\ returned = "DFG"
    /\ analysis = NoAnalysis
    /\ LET found == analyzer_extract_contract_name(Root)
           actual_contract_name == IF found # "" THEN found ELSE UnknownContract
           ast_node_count == count_ast_nodes(Root)
           builder == BuilderObject
       IN  analysis' =
             IF ~HasAttribute(builder, "filtered_nodes_count")
             THEN [contract |-> UnknownContract,
                   error |-> AttributeError("filtered_nodes_count"),
                   success |-> FALSE]
             ELSE IF ~HasAttribute(builder, "filtered_edges_count")
             THEN [contract |-> UnknownContract,
                   error |-> AttributeError("filtered_edges_count"),
                   success |-> FALSE]
             ELSE [contract |-> actual_contract_name,
                   solidity_version |-> "0.4.x",
                   success |-> TRUE,
                   ast_nodes |-> ast_node_count,
                   dfg_nodes |-> Cardinality(DOMAIN current_dfg.nodes),
                   dfg_edges |-> Cardinality(DOMAIN current_dfg.edges),
                   filtered_nodes |-> builder["filtered_nodes_count"],
                   filtered_edges |-> builder["filtered_edges_count"],
                   optimization_stats |->
                       [original_potential_nodes |-> ast_node_count,
                        kept_nodes |-> Cardinality(DOMAIN current_dfg.nodes),
                        filtered_nodes |-> builder["filtered_nodes_count"]]]
    /\ UNCHANGED <<family, builder_vars, filter_vars, serializer_vars, utility_vars>>

\* ------------------------------------------- JSONSerializer, DFGVisualizer
\* The values of the EdgeType enumeration; the model names a member by its
\* value.
EdgeTypeValues ==
    {"data_dependency", "control_dependency", "function_call", "definition",
     "usage", "modifies"}

\* member.value
EdgeTypeValue(member) == member

\* EdgeType(value): the member of that value, ValueError when there is none.
EdgeTypeOf(value) == IF value \in EdgeTypeValues THEN value ELSE "ValueError"

\* _serialize_source_location: None for a node without a position.
serialize_source_location(ast_node) ==
    IF ast_node.source_location = NoLocation
    THEN NoLocation
    ELSE [line |-> ast_node.source_location.line,
          column |-> ast_node.source_location.column,
          end_line |-> ast_node.source_location.end_line,
          end_column |-> ast_node.source_location.end_column]

\* _serialize_nodes: one entry per node under its key.  The entry has the
\* key "source_location" for every node, with None for a node without a
\* position, and the key "text" as the configuration says.
serialize_nodes(cfg, nodes, tree) ==
    [id \in DOMAIN nodes |->
        serialize_node_text(cfg, Join(tree[nodes[id].ast_node].text))
        @@ [id |-> nodes[id].node_id,
            type |-> nodes[id].node_type,
            name |-> nodes[id].name,
            scope |-> nodes[id].scope,
            source_location |-> serialize_source_location(tree[nodes[id].ast_node]),
            properties |-> nodes[id].properties]]

\* _serialize_edges
serialize_edges(edges) ==
    [id \in DOMAIN edges |->
        [id |-> edges[id].edge_id,
         source |-> edges[id].source_node_id,
         target |-> edges[id].target_node_id,
         type |-> EdgeTypeValue(edges[id].edge_type),
         properties |-> edges[id].properties]]

\* _serialize_metadata without the time stamp: the counts and the
\* distributions of the edge and node types.
serialize_metadata(dfg) ==
    [node_count |-> Cardinality(DOMAIN dfg.nodes),
     edge_count |-> Cardinality(DOMAIN dfg.edges),
     serializer_version |-> "1.0.0",
     edge_type_distribution |->
        [t \in {EdgeTypeValue(dfg.edges[e].edge_type) : e \in DOMAIN dfg.edges} |->
            Cardinality({e \in DOMAIN dfg.edges :
                            EdgeTypeValue(dfg.edges[e].edge_type) = t})],
     node_type_distribution |->
        [t \in {dfg.nodes[n].node_type : n \in DOMAIN dfg.nodes} |->
            Cardinality({n \in DOMAIN dfg.nodes : dfg.nodes[n].node_type = t})]]

\* serialize_dfg of a DFG object (entry_node_id is never set by the builder).
serialize_dfg_dict(cfg, dfg, tree) ==
    [contract |-> UnknownContract,
     solidity_version |-> "0.4.x",
     nodes |-> serialize_nodes(cfg, dfg.nodes, tree),
     edges |-> serialize_edges(dfg.edges),
     metadata |-> serialize_metadata(dfg)]

\* The node loop of _create_dfg_from_json reads line and column of the
\* entry "source_location" whenever the key is there: on None that raises
\* TypeError.
Subscriptable(data) ==
    \A id \in DOMAIN data.nodes :
        "source_location" \in DOMAIN data.nodes[id]
        => data.nodes[id].source_location # NoLocation

\* _create_dfg_from_json: the DFG object, or the exception raised.
create_dfg_from_json(data) ==
    IF ~Subscriptable(data)
    THEN [raised |-> "TypeError"]
    ELSE IF \E id \in DOMAIN data.edges :
                EdgeTypeOf(data.edges[id].type) = "ValueError"
    THEN [raised |-> "ValueError"]
    ELSE [contract_name |-> data.contract,
          solidity_version |-> data.solidity_version,
          nodes |->
             [id \in DOMAIN data.nodes |->
                 [node_id |-> data.nodes[id].id,
                  ast_node |->
                     [node_id |-> data.nodes[id].id,
                      node_type |-> "identifier",
                      source_location |->
                         IF "source_location" \in DOMAIN data.nodes[id]
                         THEN data.nodes[id].source_location
                         ELSE NoLocation,
                      text |-> IF "text" \in DOMAIN data.nodes[id]
                               THEN data.nodes[id].text ELSE ""],
                  node_type |-> data.nodes[id].type,
                  name |-> data.nodes[id].name,
                  scope |-> data.nodes[id].scope,
                  properties |-> data.nodes[id].properties]],
          edges |->
             [id \in DOMAIN data.edges |->
                 [edge_id |-> data.edges[id].id,
                  source_node_id |-> data.edges[id].source,
                  target_node_id |-> data.edges[id].target,
                  edge_type |-> EdgeTypeOf(data.edges[id].type),
                  properties |-> data.edges[id].properties]],
          metadata |-> data.metadata]

\* JSONSerializer().serialize_dfg on the DFG build_dfg returned; the
\* serializer's configuration is DFGConfig.standard().
serialize_dfg ==
    /\ pc = "returned"
    /\ returned = "DFG"
    /\ serialized = NotSerialized
    /\ serialized' = serialize_dfg_dict(standard, current_dfg, ast)
    /\ UNCHANGED <<family, builder_vars, filter_vars, analyzer_vars, utility_vars, reconstructed>>

\* DFGVisualizer()._create_dfg_from_json on what serialize_dfg returned.
create_dfg_from_json_call ==
    /\ serialized # NotSerialized
    /\ reconstructed = NotReconstructed
    /\ reconstructed' = create_dfg_from_json(serialized)
    /\ UNCHANGED <<family, builder_vars, filter_vars, analyzer_vars, utility_vars, serialized>>

\* --------------------------------------------------------- specifications
\* DFGBuilder.__init__
InitBuilder ==
    /\ pc = "idle"
    /\ returned = ""
    /\ builds = 0
    /\ ast = <<>>
    /\ ast_counter = 0
    /\ ast_frames = <<>>
    /\ frames = <<>>
    /\ current_dfg = [nodes |-> <<>>, edges |-> <<>>]
    /\ current_scope = ""
    /\ scope_stack = <<>>
    /\ variable_definitions = <<>>
    /\ function_definitions = <<>>
    /\ node_counter = 0
    /\ edge_counter = 0

Init == family = "scope" /\ InitBuilder /\ NoFilter /\ NoOuter

InitDecl == family = "decl" /\ InitBuilder /\ NoFilter /\ NoOuter

InitReuse == family = "reuse" /\ InitBuilder /\ NoFilter /\ NoOuter

InitCalls == family = "calls" /\ InitBuilder /\ NoFilter /\ NoOuter

Next ==
    \/ build_dfg
    \/ build_dfg_absent
    \/ \E node \in NextNodes : build_contract_dfg(node)
    \/ build_contract_dfg_exit
    \/ \E node \in NextNodes : build_function_dfg(node)
    \/ build_function_dfg_exit
    \/ \E node \in NextNodes : build_variable_dfg(node)
    \/ \E node \in NextNodes : build_expression_dfg(node)
    \/ build_expression_dfg_exit
    \/ \E node \in NextNodes : build_generic_dfg(node)
    \/ build_generic_dfg_exit
    \/ build_inter_scope_flows

Spec == Init /\ [][Next]_vars

SpecDecl == InitDecl /\ [][Next]_vars

SpecReuse == InitReuse /\ [][Next]_vars

SpecCalls == InitCalls /\ [][Next]_vars

InitPipeline == family = "pipeline" /\ InitBuilder /\ NoFilter /\ NoOuter

\* The steps of either builder.
NextBuild ==
    \/ Next
    \/ build_ast
    \/ \E node \in NextSyntax : build_contract_node(node)
    \/ \E node \in NextSyntax : build_function_node(node)
    \/ \E node \in NextSyntax : build_constructor_node(node)
    \/ \E node \in NextSyntax : build_state_variable_node(node)
    \/ \E node \in NextSyntax : build_variable_node(node)
    \/ \E node \in NextSyntax : build_expression_node(node)
    \/ \E node \in NextSyntax : build_generic_node(node)
    \/ build_node_return

\* build_dfg on the trees build_ast returns, and on trees of any shape.
SpecBuild == (InitPipeline \/ InitDecl) /\ [][NextBuild]_vars

SpecPipeline == InitPipeline /\ [][NextBuild]_vars

\* analyze_source on the trees build_ast returns.
NextAnalyzer ==
    \/ NextBuild
    \/ analyze_source

SpecAnalyzer == InitPipeline /\ [][NextAnalyzer]_vars

\* build_ast, the legacy pass and build_dfg, in the order of analyze_source.
InitLegacy == family = "legacy" /\ InitBuilder /\ NoFilter /\ NoOuter

NextLegacy ==
    \/ NextBuild
    \/ process_legacy_features

SpecLegacy == InitLegacy /\ [][NextLegacy]_vars

\* A chain of map and flat_map calls from a success or a failure.
InitResult ==
    /\ family = "result"
    /\ InitBuilder
    /\ NoFilter
    /\ Quiet("result")
    /\ chain_result \in {Result_success(value) : value \in 0..MaxValue}
                        \cup {Result_failure("Error")}
    /\ chain_call = NoChainCall
    /\ chain_steps = 0

NextResult ==
    \/ \E fn \in MapFunctions : map_call(fn)
    \/ \E fn \in FlatMapFunctions : flat_map_call(fn)

SpecResult == InitResult /\ [][NextResult]_vars

\* A BatchDetector is constructed, with a cache file or without, and
\* detect_batch is called once.
InitBatch ==
    /\ family = "batch"
    /\ InitBuilder
    /\ NoFilter
    /\ Quiet("batch")
    /\ \E concurrency_limit \in ConcurrencyLimits, enable_cache \in BOOLEAN,
          loaded \in SUBSET {get_cache_key("{a}")} :
          batch_detector = [concurrency_limit |-> concurrency_limit,
                            enable_cache |-> enable_cache,
                            cache |-> IF enable_cache THEN loaded ELSE {},
                            stats |-> [cache_hits |-> 0, cache_misses |-> 0,
                                       errors |-> <<>>]]
    /\ semaphore = NoSemaphore
    /\ tasks = <<>>
    /\ batch_stats = NoStats

NextBatch ==
    \/ \E found \in 0..MaxFiles, limit \in 0..MaxFiles : detect_batch(found, limit)
    \/ \E file \in 1..MaxFiles : process_file_start(file)
    \/ \E file \in 1..MaxFiles : process_file_woken(file)
    \/ \E file \in 1..MaxFiles : detect_returned(file)
    \/ \E file \in 1..MaxFiles : detect_raised(file)
    \/ gather_returned

SpecBatch == InitBatch /\ [][NextBatch]_vars

\* The event loop runs every coroutine that is ready, and pipeline.detect
\* comes back: a step that can be taken is taken.
SpecBatchFair == SpecBatch /\ WF_vars(NextBatch)

\* An LLMConfig read from the environment, and one call of
\* _call_api_with_retry by analyze_code.
InitRetry ==
    /\ family = "retry"
    /\ InitBuilder
    /\ NoFilter
    /\ Quiet("retry")
    /\ llm_config \in [retry_attempts : 0..MaxRetries,
                        rate_limit_retry_attempts : 0..MaxRetries,
                        initial_backoff : 1..2,
                        max_backoff : 1..MaxBackoff]
    /\ retry_frames = <<>>
    /\ api_log = <<>>
    /\ api_outcome = NoOutcome

NextRetry ==
    \/ call_api_with_retry
    \/ \E response \in ApiOutcomes : api_call(response)

SpecRetry == InitRetry /\ [][NextRetry]_vars

\* The API call comes back, with the content or an exception, within the
\* timeout of the request.
SpecRetryFair == SpecRetry /\ WF_vars(NextRetry)

\* A PonziDetectionPipeline whose _load_cache found no file, or a file with
\* an entry for one contract.
InitDetect ==
    /\ family = "detect"
    /\ InitBuilder
    /\ NoFilter
    /\ Quiet("detect")
    /\ pipeline_cache \in { <<>>, [h \in {get_code_hash("y")} |-> ReportedEntry("y")] }
    /\ detect_frames = <<>>
    /\ detect_log = <<>>

NextDetect ==
    \/ \E contract_data \in ContractData : detect(contract_data)
    \/ \E k \in 1..MaxDetects, outcome \in AnalyzerOutcomes : detect_analyzed(k, outcome)

SpecDetect == InitDetect /\ [][NextDetect]_vars

\* A SolidityPipeline with detection and visualization enabled or not, and
\* one call of process_batch.
InitRunner ==
    /\ family = "runner"
    /\ InitBuilder
    /\ NoFilter
    /\ Quiet("runner")
    /\ run_config \in [detection_enabled : BOOLEAN, enable_visualization : BOOLEAN]
    /\ batch_result = NoBatchResult
    /\ batch_pc = "idle"

NextRunner ==
    \/ \E source_files \in 0..MaxSourceFiles : process_batch(source_files)
    \/ \E read \in ReadOutcomes, analysis_result \in AnalysisResults,
          detected \in DetectionOutcomes, visualized \in VisualizationOutcomes :
          process_batch_round(read, analysis_result, detected, visualized)
    \/ process_batch_return

SpecRunner == InitRunner /\ [][NextRunner]_vars

\* A builder whose DFG is given its edges, and then asked for paths.
InitFlow == family = "flow" /\ InitBuilder /\ NoFilter /\ NoOuter

NextFlow ==
    \/ \E edge \in FlowEdges : dfg_add_edge(edge[1], edge[2], edge[3])
    \/ \E start_node_id \in FlowNodeIds, end_node_id \in FlowTargetIds :
          analyze_data_flow(start_node_id, end_node_id)

SpecFlow == InitFlow /\ [][NextFlow]_vars

\* A DFG is built, serialized and read back.
NextRoundTrip ==
    \/ Next
    \/ serialize_dfg
    \/ create_dfg_from_json_call

SpecRoundTrip == InitDecl /\ [][NextRoundTrip]_vars

\* A test of dfg_config: one node, one configuration, then the calls.
InitConfig ==
    /\ family = "config"
    /\ InitBuilder
    /\ NoOuter
    /\ config = Unconstructed
    /\ passed_kwargs = <<>>
    /\ asked_type \in FilterNodeTypes
    /\ asked_name \in FilterNodeNames
    /\ asked_text \in FilterNodeTexts
    /\ call = NoCall

NextConfig ==
    \/ \E args \in ConstructorKwargs : DFGConfig_init(args)
    \/ \E preset \in {compact, standard, verbose} : DFGConfig_preset(preset)
    \/ \E args \in {<<asked_type, asked_text>>, <<asked_type, asked_name, asked_text>>} :
           get_node_priority_call(args)
    \/ should_keep_node_call
    \/ serialize_nodes_call

SpecConfig == InitConfig /\ [][NextConfig]_vars

\* ================================================================ claims
Nodes == current_dfg.nodes
Edges == current_dfg.edges

\* The number in a node id.
Num(id) == CHOOSE k \in 1..node_counter : NodeId(k) = id

\* The AST node a DFG node refers to.
AstOf(n) == ast[Nodes[n].ast_node]

\* The virtual AST nodes of parameters take their ids from the DFG counter.
IsVirtual(n) == \E k \in 1..node_counter : NodeId(k) = Nodes[n].ast_node

Range(seq) == {seq[i] : i \in 1..Len(seq)}

\* The scope a contract or function opens for its subtree.
OpensScope(ast_node) == ast_node.class \in {ContractNode, FunctionNode}

ScopeName(ast_node) ==
    IF ast_node.class = ContractNode
    THEN IF ast_node.name # NoName THEN ast_node.name ELSE "contract"
    ELSE (IF ast_node.name # NoName THEN ast_node.name ELSE "anonymous") \o "_function"

\* The nearest proper ancestor of an AST node that is a contract or a
\* function ("" when there is none).
RECURSIVE Owner(_)
Owner(a) ==
    LET p == ast[a].parent
    IN  IF p = "" THEN ""
        ELSE IF OpensScope(ast[p]) THEN p
        ELSE Owner(p)

\* AST node a lies in the subtree below AST node anc.
RECURSIVE Within(_, _)
Within(a, anc) ==
    LET p == ast[a].parent
    IN  p # "" /\ (p = anc \/ Within(p, anc))

\* ---------------------------------------------------------------- C1
\* The ids of the two placeholder forms: contract_<baseName> for a base of
\* a contract of this DFG, init_<nodeId> for a node of this DFG.
SyntheticIds ==
    {ContractPlaceholder(base) :
        base \in UNION {Range(AstOf(n).base_contracts) : n \in DOMAIN Nodes}}
    \cup {InitPlaceholder(n) : n \in DOMAIN Nodes}

\* C1: every edge of the DFG starts and ends at a node of the same DFG or
\* at a placeholder id contract_<baseName> or init_<nodeId>; no edge refers
\* to a node of an earlier build on the same instance.
C1_EdgeEndpointsKnown ==
    \A e \in DOMAIN Edges :
        /\ Edges[e].source_node_id \in DOMAIN Nodes \cup SyntheticIds
        /\ Edges[e].target_node_id \in DOMAIN Nodes \cup SyntheticIds

\* A second build on the same instance has returned a DFG with a resolved
\* reference and an initializer placeholder.
C1_Witness ==
    /\ pc = "returned"
    /\ builds = 2
    /\ \E e \in DOMAIN Edges : <<"relation", "def-use">> \in Edges[e].properties
    /\ \E e \in DOMAIN Edges :
           Edges[e].target_node_id = InitPlaceholder(Edges[e].source_node_id)

\* ---------------------------------------------------------------- C3
\* The scope names of the contracts and functions whose calls are active.
RECURSIVE OpenScopes(_)
OpenScopes(fs) ==
    IF fs = <<>>
    THEN <<>>
    ELSE (IF OpensScope(ast[Head(fs).ast_node])
          THEN <<ScopeName(ast[Head(fs).ast_node])>> ELSE <<>>)
         \o OpenScopes(Tail(fs))

\* C3: from the start of build_dfg on, the scope stack is "global" followed
\* by one name for each contract or function whose subtree is being walked
\* (one push on entry, one pop on completion), it is never empty,
\* current_scope is its top, and it is <<"global">> when the walk is over.
C3_ScopeStackDiscipline ==
    pc # "idle" =>
        /\ scope_stack = <<"global">> \o OpenScopes(frames)
        /\ Len(scope_stack) >= 1
        /\ current_scope = scope_stack[Len(scope_stack)]
        /\ pc \in {"post", "returned"} => scope_stack = <<"global">>

\* build_dfg has returned after walking a function nested in a contract.
C3_Witness ==
    /\ pc = "returned"
    /\ scope_stack = <<"global">>
    /\ \E n, m \in DOMAIN Nodes :
           /\ Nodes[n].node_type = "function"
           /\ Nodes[n].scope = "C"
           /\ AstOf(m).parent = Nodes[n].ast_node
           /\ Nodes[m].scope = "f_function"

\* ---------------------------------------------------------------- C4
\* The scope in force where an AST node stands: that of its nearest
\* enclosing contract or function, "global" outside of all.
EnclosingScope(a) ==
    IF Owner(a) = "" THEN "global" ELSE ScopeName(ast[Owner(a)])

\* The function a parameter node was synthesized for.
ParamOwners(n) ==
    {Edges[e].source_node_id : e \in {x \in DOMAIN Edges :
        Edges[x].target_node_id = n /\ Edges[x].edge_type = "definition"}}

\* C4 (amended): every node carries the scope of its nearest enclosing
\* contract or function: the contract's name, or "contract" when it has no
\* name; "<functionName>_function", or "anonymous_function"; "global"
\* outside of all.  Parameter and return-parameter nodes carry the scope of
\* their function.
C4_NodeScope ==
    \A n \in DOMAIN Nodes :
        IF IsVirtual(n)
        THEN /\ ParamOwners(n) # {}
             /\ \A g \in ParamOwners(n) : Nodes[n].scope = ScopeName(AstOf(g))
        ELSE Nodes[n].scope = EnclosingScope(Nodes[n].ast_node)

\* The scope names as the claim has them: a contract's children carry the
\* contract's name.
ClaimedScopeName(ast_node) ==
    IF ast_node.class = ContractNode
    THEN ast_node.name
    ELSE (IF ast_node.name # NoName THEN ast_node.name ELSE "anonymous") \o "_function"

\* C4 as stated: the nodes of a contract's direct children carry the
\* contract's name.
C4_AsStated ==
    \A n \in DOMAIN Nodes :
        (/\ ~IsVirtual(n)
         /\ AstOf(n).parent # ""
         /\ OpensScope(ast[AstOf(n).parent]))
        => Nodes[n].scope = ClaimedScopeName(ast[AstOf(n).parent])

\* An unnamed function declared in an unnamed contract, with its parameter.
C4_Witness ==
    /\ pc = "returned"
    /\ \E n, p \in DOMAIN Nodes :
           /\ Nodes[n].node_type = "function"
           /\ AstOf(n).name = NoName
           /\ Nodes[n].scope = "contract"
           /\ IsVirtual(p)
           /\ n \in ParamOwners(p)
           /\ Nodes[p].scope = "anonymous_function"

\* ---------------------------------------------------------------- C5..C9
IsVariable(n) ==
    ~IsVirtual(n) /\ AstOf(n).class = VariableNode /\ Nodes[n].name # NoName

IsReference(n, y) ==
    ~IsVirtual(n) /\ AstOf(n).class = ExpressionNode /\ Nodes[n].name = y

IsFunction(a) == a # "" /\ ast[a].class = FunctionNode

IsContract(a) == a # "" /\ ast[a].class = ContractNode

\* The edges that resolve a reference.
Resolution(v, e, relation) ==
    {x \in DOMAIN Edges :
        /\ Edges[x].source_node_id = v
        /\ Edges[x].target_node_id = e
        /\ Edges[x].edge_type = "data_dependency"
        /\ <<"relation", relation>> \in Edges[x].properties}

ResolutionsOf(e, relation) ==
    {x \in DOMAIN Edges :
        /\ Edges[x].target_node_id = e
        /\ <<"relation", relation>> \in Edges[x].properties}

\* The visit of variable v is over when the handler of expression e looks
\* its name up: v was visited before e, or in the subtree of e.
RecordedBefore(v, e) ==
    Num(v) < Num(e) \/ Within(Nodes[v].ast_node, Nodes[e].ast_node)

\* C5: a state variable declared directly in a contract and an expression
\* named after it, visited later in the body of a function of the same
\* contract, are joined by a data_dependency edge tagged state-var-use.
C5_StateVarUse ==
    pc = "returned" =>
        \A v, e \in DOMAIN Nodes :
            (/\ IsVariable(v)
             /\ IsContract(AstOf(v).parent)
             /\ IsReference(e, Nodes[v].name)
             /\ \E g \in DOMAIN ast :
                    /\ IsFunction(g)
                    /\ ast[g].parent = AstOf(v).parent
                    /\ Within(Nodes[e].ast_node, g)
             /\ Num(v) < Num(e))
            => Resolution(v, e, "state-var-use") # {}

\* C6 (amended): a variable y declared in a function and an expression
\* named y of the same function, handled after that declaration and after
\* no later declaration of y recorded under the same scope name, are joined
\* by a data_dependency edge tagged def-use.
C6_DefUse ==
    pc = "returned" =>
        \A v, e \in DOMAIN Nodes :
            (/\ IsVariable(v)
             /\ IsFunction(Owner(Nodes[v].ast_node))
             /\ IsReference(e, Nodes[v].name)
             /\ Owner(Nodes[e].ast_node) = Owner(Nodes[v].ast_node)
             /\ RecordedBefore(v, e)
             /\ ~\E w \in DOMAIN Nodes :
                    /\ IsVariable(w)
                    /\ Nodes[w].name = Nodes[v].name
                    /\ Nodes[w].scope = Nodes[e].scope
                    /\ Num(w) > Num(v)
                    /\ RecordedBefore(w, e))
            => Resolution(v, e, "def-use") # {}

\* C6 as stated: every expression named y in the function that declares y
\* has a def-use edge from the declaration.
C6_AsStated ==
    pc = "returned" =>
        \A v, e \in DOMAIN Nodes :
            (/\ IsVariable(v)
             /\ IsFunction(Owner(Nodes[v].ast_node))
             /\ IsReference(e, Nodes[v].name)
             /\ Owner(Nodes[e].ast_node) = Owner(Nodes[v].ast_node))
            => Resolution(v, e, "def-use") # {}

\* A function's reference follows its declaration and is joined to it.
C6_Witness ==
    /\ pc = "returned"
    /\ \E v, e \in DOMAIN Nodes :
           /\ IsVariable(v)
           /\ IsFunction(Owner(Nodes[v].ast_node))
           /\ IsReference(e, Nodes[v].name)
           /\ Owner(Nodes[e].ast_node) = Owner(Nodes[v].ast_node)
           /\ Num(v) < Num(e)
           /\ Resolution(v, e, "def-use") # {}

\* C7: for two function declarations f and g, neither inside the other, a
\* variable declared only in f and an expression of that name in g are not
\* joined by a def-use edge.
C7_ScopeIsolation ==
    pc = "returned" =>
        \A v, e \in DOMAIN Nodes :
            LET f == Owner(Nodes[v].ast_node)
                g == Owner(Nodes[e].ast_node)
            IN  (/\ IsVariable(v)
                 /\ IsFunction(f)
                 /\ IsReference(e, Nodes[v].name)
                 /\ IsFunction(g)
                 /\ f # g
                 /\ ~Within(f, g)
                 /\ ~Within(g, f)
                 /\ ~\E w \in DOMAIN Nodes :
                        /\ IsVariable(w)
                        /\ Nodes[w].name = Nodes[v].name
                        /\ Within(Nodes[w].ast_node, g))
                => Resolution(v, e, "def-use") = {}

\* C8: no expression node receives both a def-use and a state-var-use
\* edge, and none receives more than one resolution edge.
C8_EitherOr ==
    \A e \in DOMAIN Nodes :
        Cardinality(ResolutionsOf(e, "def-use")
                    \cup ResolutionsOf(e, "state-var-use")) <= 1

\* The handler of a named expression is about to return and neither
\* "<current_scope>.<name>" nor "global.<name>" is in the table.
UnresolvedReturn ==
    /\ pc = "walk"
    /\ frames # <<>>
    /\ TopAst.class = ExpressionNode
    /\ TopAst.name # NoName
    /\ frames' = SubSeq(frames, 1, Len(frames) - 1)
    /\ (current_scope \o "." \o TopAst.name) \notin DOMAIN variable_definitions
    /\ ("global." \o TopAst.name) \notin DOMAIN variable_definitions

\* C9 (amended): when both lookups miss, the handler returns without an
\* error and adds no resolution edge: nodes, tables, scopes and old edges
\* stay as they are, and the only edge the return can add is the untagged
\* edge that hands the expression to the node above it.
C9_UnresolvedAddsNothing ==
    [][UnresolvedReturn =>
        /\ pc' \in {"walk", "post"}
        /\ current_dfg'.nodes = Nodes
        /\ variable_definitions' = variable_definitions
        /\ function_definitions' = function_definitions
        /\ scope_stack' = scope_stack
        /\ node_counter' = node_counter
        /\ \A x \in DOMAIN Edges : x \in DOMAIN current_dfg'.edges
                                   /\ current_dfg'.edges[x] = Edges[x]
        /\ Cardinality(DOMAIN current_dfg'.edges \ DOMAIN Edges) <= 1
        /\ \A x \in DOMAIN current_dfg'.edges \ DOMAIN Edges :
               /\ \A pr \in current_dfg'.edges[x].properties : pr[1] # "relation"
               /\ Len(frames) > 1
               /\ {current_dfg'.edges[x].source_node_id,
                   current_dfg'.edges[x].target_node_id}
                      = {Top.dfg_node, frames[Len(frames) - 1].dfg_node}
    ]_vars

\* C9 as stated: an expression whose name is under neither key has no
\* data_dependency edge at either end.
C9_AsStated ==
    pc = "returned" =>
        \A e \in DOMAIN Nodes :
            (/\ ~IsVirtual(e)
             /\ AstOf(e).class = ExpressionNode
             /\ Nodes[e].name # NoName
             /\ (Nodes[e].scope \o "." \o Nodes[e].name) \notin DOMAIN variable_definitions
             /\ ("global." \o Nodes[e].name) \notin DOMAIN variable_definitions)
            => \A x \in DOMAIN Edges :
                   Edges[x].edge_type = "data_dependency"
                   => e \notin {Edges[x].source_node_id, Edges[x].target_node_id}

\* An expression of a function names a variable that only the contract
\* declares; the build returned with no resolution edge at it.
C9_Witness ==
    /\ pc = "returned"
    /\ \E v, e \in DOMAIN Nodes :
           /\ IsVariable(v)
           /\ IsContract(AstOf(v).parent)
           /\ IsReference(e, Nodes[v].name)
           /\ Nodes[e].scope = "f_function"
           /\ Num(v) < Num(e)
           /\ (Nodes[e].scope \o "." \o Nodes[e].name) \notin DOMAIN variable_definitions
           /\ ("global." \o Nodes[e].name) \notin DOMAIN variable_definitions
           /\ ResolutionsOf(e, "def-use") \cup ResolutionsOf(e, "state-var-use") = {}

\* ---------------------------------------------------------------- C2
\* The AST node ids issued, with their numbers.
NumberedAstIds == {<<k, AstId(k)>> : k \in 1..ast_counter}

\* The DFG node ids issued, with their numbers.
NumberedNodeIds == {<<k, NodeId(k)>> : k \in 1..node_counter}

\* build_ast: every id the counter issued names one node made by
\* build_node, a node's parent has a smaller id, and the ids between the
\* parent's and the node's belong to the parent's subtree (pre-order).
AstIdsInOrder ==
    LET issued == NumberedAstIds
        virtual == {x[2] : x \in NumberedNodeIds}
        tree == {a \in DOMAIN ast : a \notin virtual}
    IN  /\ tree = {x[2] : x \in issued}
        /\ Cardinality(tree) = ast_counter
        /\ \A x \in issued :
               /\ ast[x[2]].node_id = x[2]
               /\ ast[x[2]].parent # ""
                  => \E p \in issued :
                         /\ p[2] = ast[x[2]].parent
                         /\ p[1] < x[1]
                         /\ \A y \in issued :
                                (p[1] < y[1] /\ y[1] < x[1]) => Within(y[2], p[2])

\* The visits of _build_node_dfg: the number of the DFG node made and the
\* number of the AST node it was made for.
Visits ==
    {<<v[1][1], v[2][1]>> :
        v \in {w \in NumberedNodeIds \X NumberedAstIds :
                  /\ w[1][2] \in DOMAIN Nodes
                  /\ Nodes[w[1][2]].ast_node = w[2][2]}}

\* build_dfg: every id the counter issued names one DFG node or one
\* virtual parameter node, the nodes of the tree get their ids in the
\* order of the tree's ids (pre-order), and a parameter node's id follows
\* its virtual node's and its function's.
DfgIdsInOrder ==
    LET issued == NumberedNodeIds
        visits == Visits
    IN  /\ DOMAIN Nodes \subseteq {x[2] : x \in issued}
        /\ \A x \in issued :
               /\ x[2] \in DOMAIN Nodes \/ x[2] \in DOMAIN ast
               /\ ~(x[2] \in DOMAIN Nodes /\ x[2] \in DOMAIN ast)
               /\ x[2] \in DOMAIN Nodes => Nodes[x[2]].node_id = x[2]
        /\ \A v, w \in visits :
               /\ v[2] < w[2] => v[1] < w[1]
               /\ v[2] = w[2] => v[1] = w[1]
        /\ \A n \in DOMAIN Nodes : Nodes[n].ast_node \in DOMAIN ast
        /\ \A x \in issued :
               (x[2] \in DOMAIN ast)
               => \E p \in issued :
                      /\ p[1] = x[1] + 1
                      /\ p[2] \in DOMAIN Nodes
                      /\ Nodes[p[2]].ast_node = x[2]
                      /\ ParamOwners(p[2]) # {}
                      /\ \A g \in ParamOwners(p[2]) :
                             \E y \in issued : y[2] = g /\ y[1] < x[1]

\* C2: within one build_ast call and within one build_dfg call the ids
\* given to nodes are pairwise distinct and grow in the order of the
\* visits: a node's id is smaller than every id in its subtree, the
\* synthesized parameter and return-parameter nodes included.
C2_IdsDistinctAndIncreasing == AstIdsInOrder /\ DfgIdsInOrder

\* build_dfg has returned the graph of a tree build_ast made, with a node
\* two levels below another.
C2_Witness ==
    /\ family = "pipeline"
    /\ pc = "returned"
    /\ Cardinality(DOMAIN Nodes) = ast_counter
    /\ \E n, m \in DOMAIN Nodes :
           /\ AstOf(m).parent # ""
           /\ ast[AstOf(m).parent].parent = Nodes[n].ast_node
           /\ Num(n) < Num(m)

\* ---------------------------------------------------------------- C10
\* The direct declarations of a contract: its children other than the
\* braces of its body.
Declarations(c) ==
    {d \in Range(AstOf(c).children) : ast[d].text \notin {<<"{">>, <<"}">>}}

DefinitionEdges(c) ==
    {x \in DOMAIN Edges :
        Edges[x].source_node_id = c /\ Edges[x].edge_type = "definition"}

\* C10: a contract with N direct declarations has exactly N outgoing
\* definition edges to nodes of the DFG, one to the node of each
\* declaration; its other outgoing definition edges are the placeholders
\* contract_<baseName>, one per base contract.
C10_DefinitionEdges ==
    pc = "returned" =>
        \A c \in DOMAIN Nodes :
            (~IsVirtual(c) /\ AstOf(c).class = ContractNode)
            => LET real == {x \in DefinitionEdges(c) :
                               Edges[x].target_node_id \in DOMAIN Nodes}
               IN  /\ Cardinality(real) = Cardinality(Declarations(c))
                   /\ \A d \in Declarations(c) :
                          Cardinality({x \in real :
                              Nodes[Edges[x].target_node_id].ast_node = d}) = 1
                   /\ \A x \in DefinitionEdges(c) \ real :
                          \E base \in Range(AstOf(c).base_contracts) :
                              Edges[x].target_node_id = ContractPlaceholder(base)
                   /\ Cardinality(DefinitionEdges(c) \ real)
                          = Len(AstOf(c).base_contracts)

\* --------------------------------------------------------------- C11
CallEdges == {e \in DOMAIN Edges : Edges[e].edge_type = "function_call"}

\* DFG node f is the node of a function declaration named name.
Declares(f, name) ==
    ~IsVirtual(f) /\ AstOf(f).class = FunctionNode /\ AstOf(f).name = name

\* DFG node x is an expression whose source text holds name followed by "(".
CallsName(x, name) ==
    /\ ~IsVirtual(x)
    /\ Nodes[x].node_type = "expression"
    /\ Contains(AstOf(x).text, Chars(name) \o <<"(">>)

\* The names of the function declarations of the DFG.
DeclaredNames ==
    {AstOf(f).name :
        f \in {n \in DOMAIN Nodes : ~IsVirtual(n) /\ AstOf(n).class = FunctionNode}}
    \ {NoName}

\* The declaration of a name that the walk reached last.
LastDeclares(f, name) ==
    /\ Declares(f, name)
    /\ \A g \in DOMAIN Nodes : Declares(g, name) => Num(g) <= Num(f)

\* C11 as stated: when build_dfg has returned, every named function
\* declaration has a function_call edge to every expression node whose
\* text holds its name followed by "(", there is no other function_call
\* edge, and no function_call edge exists before the walk is over.
C11_AsStated ==
    /\ pc # "returned" => CallEdges = {}
    /\ pc = "returned" =>
        /\ \A name \in DeclaredNames : \A f, x \in DOMAIN Nodes :
               Declares(f, name) /\ CallsName(x, name) =>
                   \E e \in CallEdges :
                       /\ Edges[e].source_node_id = f
                       /\ Edges[e].target_node_id = x
        /\ \A e \in CallEdges : \E name \in DeclaredNames :
               /\ Edges[e].source_node_id \in DOMAIN Nodes
               /\ Edges[e].target_node_id \in DOMAIN Nodes
               /\ Declares(Edges[e].source_node_id, name)
               /\ CallsName(Edges[e].target_node_id, name)

\* Two declarations of f and an expression that calls f: the edge starts
\* at one of the declarations only.
C11_Overloaded ==
    /\ pc = "returned"
    /\ \E f, g, x \in DOMAIN Nodes :
           /\ f # g
           /\ Declares(f, "f") /\ Declares(g, "f") /\ CallsName(x, "f")

\* C11: when build_dfg has returned, for every function name the walk
\* declared, the last declaration of that name has exactly one
\* function_call edge to every expression node whose text holds the name
\* followed by "(", and to nothing else; there is no other function_call
\* edge, and no function_call edge exists before the walk is over.
C11_CallResolution ==
    /\ pc # "returned" => CallEdges = {}
    /\ pc = "returned" =>
        /\ \A name \in DeclaredNames : \A f, x \in DOMAIN Nodes :
               LastDeclares(f, name) /\ CallsName(x, name) =>
                   Cardinality({e \in CallEdges :
                       /\ Edges[e].source_node_id = f
                       /\ Edges[e].target_node_id = x}) = 1
        /\ \A e \in CallEdges : \E name \in DeclaredNames :
               /\ Edges[e].source_node_id \in DOMAIN Nodes
               /\ Edges[e].target_node_id \in DOMAIN Nodes
               /\ LastDeclares(Edges[e].source_node_id, name)
               /\ CallsName(Edges[e].target_node_id, name)

\* A returned DFG with two declarations of f and a call edge to an
\* expression whose text holds "f(" inside a longer name; one of the
\* declarations has no call edge.
C11_Witness ==
    /\ pc = "returned"
    /\ \E f, g \in DOMAIN Nodes : f # g /\ Declares(f, "f") /\ Declares(g, "f")
    /\ \E e \in CallEdges :
           AstOf(Edges[e].target_node_id).text = <<"g", "f", "(", ")">>
    /\ \E f \in DOMAIN Nodes :
           /\ Declares(f, "f")
           /\ \A e \in CallEdges : Edges[e].source_node_id # f

\* --------------------------------------------------------------- C12
\* One step of the builder: no counter goes down; a step that starts a
\* build_dfg call leaves an empty DFG, the scope stack at initial_stack and
\* both tables empty; any other step adds to the DFG only ids numbered
\* above the counter's value before the step.  Every id of an earlier call
\* is numbered at most the counter's value when the later call starts.
CountersKept(initial_stack) ==
    /\ node_counter' >= node_counter
    /\ edge_counter' >= edge_counter
    /\ IF builds' # builds
       THEN /\ Nodes' = <<>>
            /\ Edges' = <<>>
            /\ scope_stack' = initial_stack
            /\ variable_definitions' = <<>>
            /\ function_definitions' = <<>>
       ELSE /\ DOMAIN Nodes \subseteq DOMAIN Nodes'
            /\ DOMAIN Edges \subseteq DOMAIN Edges'
            /\ DOMAIN Nodes' \ DOMAIN Nodes
                   \subseteq {NodeId(k) : k \in (node_counter + 1)..node_counter'}
            /\ DOMAIN Edges' \ DOMAIN Edges
                   \subseteq {EdgeId(k) : k \in (edge_counter + 1)..edge_counter'}

\* C12 as stated: the counters are never reset, the ids of a later
\* build_dfg call are above those of every earlier call, and each call
\* starts with an empty scope stack and empty definition and function
\* tables.
C12_AsStated == [][CountersKept(<<>>)]_vars

\* C12: on one DFGBuilder instance the node and edge counters are never
\* reset, so every node id and edge id of a later build_dfg call is numbered
\* above every id of an earlier call and no id is issued twice, while each
\* call starts with the scope stack ["global"] and with empty definition
\* and function tables.
C12_CountersNeverReset == [][CountersKept(<<"global">>)]_vars

\* The second call on one instance has returned: its DFG has nodes and
\* edges, none of them numbered 1, and its function table points into it.
C12_Witness ==
    /\ builds = 2
    /\ pc = "returned"
    /\ Nodes # <<>> /\ NodeId(1) \notin DOMAIN Nodes
    /\ Edges # <<>> /\ EdgeId(1) \notin DOMAIN Edges
    /\ function_definitions # <<>>
    /\ \A i \in 1..Len(function_definitions) :
           function_definitions[i].value \in DOMAIN Nodes

\* --------------------------------------------------------------- C13
\* The last call was should_keep_node and returned True / False.
ReturnedKeep == call.function = "should_keep_node" /\ call.result

ReturnedDrop == call.function = "should_keep_node" /\ ~call.result

\* What should_keep_node returns for the node asked about under cfg.
KeepsAsked(cfg) == should_keep_node(asked_type, asked_name, asked_text, cfg)

\* C13: a node that should_keep_node keeps under DFGConfig.compact() is
\* kept under DFGConfig.standard(), and a node kept under
\* DFGConfig.standard() is kept under DFGConfig.verbose().
C13_PresetsMonotone ==
    /\ ReturnedKeep /\ config = compact => KeepsAsked(standard)
    /\ ReturnedKeep /\ config = standard => KeepsAsked(verbose)
    /\ ReturnedDrop /\ config = verbose => ~KeepsAsked(standard)
    /\ ReturnedDrop /\ config = standard => ~KeepsAsked(compact)

\* should_keep_node has kept a node under the compact preset.
C13_Witness ==
    /\ ReturnedKeep
    /\ config = compact
    /\ passed_kwargs = [output_mode |-> COMPACT]

\* --------------------------------------------------------------- C14
\* The order Critical > Important > Auxiliary > Discard, lowest first.
Tiers == <<DISCARD, AUXILIARY, IMPORTANT, CRITICAL>>

AtLeast(p, q) ==
    \E i, j \in 1..Len(Tiers) : Tiers[i] = p /\ Tiers[j] = q /\ i >= j

\* The text as the vocabularies are asked about it: trimmed, in lower case.
Normalised(text) == lower(strip(text))

\* The vocabularies whose toggle is on in cfg.
EnabledVocabulary(cfg) ==
    (IF cfg.skip_keywords THEN KEYWORD_PATTERNS ELSE {})
    \cup (IF cfg.skip_type_names THEN TYPE_KEYWORDS ELSE {})
    \cup (IF cfg.skip_operators THEN OPERATORS ELSE {})
    \cup (IF cfg.skip_punctuation THEN PUNCTUATION ELSE {})

PriorityArgs == BindPriorityArgs(call.args)

ClosedVocabulary == KEYWORD_PATTERNS \cup TYPE_KEYWORDS \cup OPERATORS \cup PUNCTUATION

\* The call was about an identifier whose text, trimmed and in lower case,
\* is in one of the four vocabularies.
VocabularyIdentifier(a) ==
    /\ a.node_type = "identifier"
    /\ "node_text" \in DOMAIN a
    /\ Normalised(a.node_text) \in ClosedVocabulary

TwoArgumentCall(type, word) ==
    call.function = "get_node_priority" /\ call.args = <<type, word>>

\* C16: get_node_priority("identifier", t), called with these two
\* arguments, returns Discard for every t that is a reserved keyword or a
\* built-in type name.
C16_TwoArgumentKeyword ==
    \A t \in KEYWORD_PATTERNS \cup TYPE_KEYWORDS :
        TwoArgumentCall("identifier", t) => call.result = DISCARD

\* --------------------------------------------------------------- C17
\* A text that is in none of the four vocabularies.
PlainWord(text) == text # "" /\ Normalised(text) \notin ClosedVocabulary

\* C17: an identifier whose text is in none of the four vocabularies gets
\* priority Important from get_node_priority, in either form of the call,
\* and is kept by should_keep_node under the standard preset.
C17_PlainIdentifier ==
    /\ /\ call.function = "get_node_priority"
       /\ call.args[1] = "identifier"
       /\ PlainWord(call.args[Len(call.args)])
       => call.result = IMPORTANT
    /\ /\ call.function = "should_keep_node"
       /\ config = standard
       /\ call.args[1] = "identifier"
       /\ PlainWord(call.args[3])
       => call.result

\* --------------------------------------------------------------- C18
\* The filter parameters a preset is said to fix.
PresetParameters(min_priority, skip, skip_literals, include) ==
    /\ config.min_node_priority = min_priority
    /\ config.skip_keywords = skip
    /\ config.skip_type_names = skip
    /\ config.skip_operators = skip
    /\ config.skip_punctuation = skip
    /\ config.skip_literal_nodes = skip_literals
    /\ config.include_node_text = include
    /\ config.include_ast_metadata = include

C19_VerboseKeepsAll ==
    call.function = "should_keep_node" /\ config = verbose => call.result

\* should_keep_node has kept the identifier "public" under the verbose
\* preset.
C19_Witness ==
    /\ ReturnedKeep
    /\ config = verbose
    /\ passed_kwargs = [output_mode |-> VERBOSE]
    /\ call.args[1] = "identifier"
    /\ call.args[3] = "public"

\* --------------------------------------------------------------- C20
\* C20: the parameters passed to the DFGConfig constructor have the passed
\* values after construction and drive should_keep_node and the serializer,
\* also without output_mode: DFGConfig(skip_keywords=False,
\* min_node_priority=AUXILIARY) keeps the identifier "function", and
\* DFGConfig(include_node_text=True, text_max_length=10) makes the
\* serializer emit a truncated text field.
C20_ExplicitParameters ==
    /\ config # Unconstructed =>
           \A field \in DOMAIN passed_kwargs : config[field] = passed_kwargs[field]
    /\ /\ passed_kwargs = [skip_keywords |-> FALSE, min_node_priority |-> AUXILIARY]
       /\ call.function = "should_keep_node"
       /\ call.args[1] = "identifier"
       /\ call.args[3] = "function"
       => call.result
    /\ /\ passed_kwargs = [include_node_text |-> TRUE, text_max_length |-> 10]
       /\ call.function = "_serialize_nodes"
       /\ Len(call.args[1]) > 10
       => /\ "text" \in DOMAIN call.result
          /\ call.result.text = SubSeq(call.args[1], 1, 10) \o "..."


\* ---------------------------------------------------------------- C21
\* C21: an analysis whose AST and DFG were built succeeds, the builder has
\* the filtered count the analyzer reads, and the reported counts satisfy
\* kept_nodes + filtered_nodes = original_potential_nodes.
C21_CountsAddUp ==
    analysis # NoAnalysis =>
        /\ HasAttribute(BuilderObject, "filtered_nodes_count")
        /\ analysis.success = TRUE
        /\ LET stats == analysis.optimization_stats
           IN  stats.kept_nodes + stats.filtered_nodes
                   = stats.original_potential_nodes


\* ---------------------------------------------------------------- C22
\* The multiset of (source, target, type) triples of a dict of edges, as a
\* function from triple to count.
EdgeTriples(edges) ==
    LET triple(e) == <<edges[e].source_node_id, edges[e].target_node_id,
                       edges[e].edge_type>>
    IN  [t \in {triple(e) : e \in DOMAIN edges} |->
            Cardinality({e \in DOMAIN edges : triple(e) = t})]

\* C22: reconstructing a serialized DFG succeeds and yields the same number
\* of nodes, the same number of edges and the same multiset of
\* (source, target, type) edge triples as the DFG that was serialized.
C22_RoundTrip ==
    reconstructed # NotReconstructed =>
        /\ "raised" \notin DOMAIN reconstructed
        /\ Cardinality(DOMAIN reconstructed.nodes) = Cardinality(DOMAIN Nodes)
        /\ Cardinality(DOMAIN reconstructed.edges) = Cardinality(DOMAIN Edges)
        /\ EdgeTriples(reconstructed.edges) = EdgeTriples(Edges)

\* ---------------------------------------------------------------- C23
\* C23: in the tree build_ast returned, every node with a parent is in the
\* children list of that parent, and no node is in the children list of two
\* nodes.
C23_ParentOwnsChild ==
    pc = "built" =>
        /\ \A n \in DOMAIN ast :
               ast[n].parent # "" => n \in Range(ast[ast[n].parent].children)
        /\ \A n \in DOMAIN ast :
               Cardinality({p \in DOMAIN ast : n \in Range(ast[p].children)}) <= 1

\* ---------------------------------------------------------------- C24
Visibilities == {"public", "private", "internal", "external"}

\* The function is declared in a contract under the contract's name.
NamedAsContract(a) ==
    /\ a.parent # ""
    /\ ast[a.parent].class = ContractNode
    /\ a.name # NoName
    /\ a.name = ast[a.parent].name

\* C24: in the DFG built after the legacy pass, a function declared under
\* its contract's name is marked as constructor and its node has the type
\* constructor_function, as has the node of a constructor declaration; the
\* node of every other function has the type function; a state variable
\* declared without a visibility is internal, one declared with a
\* visibility keeps it, and the node of either has the type state_variable.
C24_LegacyClassification ==
    (family = "legacy" /\ pc = "returned") =>
        \A n \in DOMAIN Nodes :
            ~IsVirtual(n) =>
                LET a == AstOf(n)
                IN  /\ a.class = FunctionNode =>
                        /\ NamedAsContract(a) => a.is_constructor
                        /\ Nodes[n].node_type =
                               IF NamedAsContract(a)
                                  \/ a.node_type = "constructor_definition"
                               THEN "constructor_function"
                               ELSE "function"
                    /\ a.node_type = "state_variable_declaration" =>
                        /\ Nodes[n].node_type = "state_variable"
                        /\ IF \E i \in 1..Len(a.text) : a.text[i] \in Visibilities
                           THEN a.visibility \in Range(a.text)
                           ELSE a.visibility = "internal"

\* The scenario contract C { uint x; function C() {} function f() {} }: a
\* state variable node for x, a constructor_function node for C() and a
\* function node for f in one DFG.
C24_Witness ==
    /\ family = "legacy"
    /\ pc = "returned"
    /\ \E v, c, f \in DOMAIN Nodes :
          /\ ~IsVirtual(v) /\ ~IsVirtual(c) /\ ~IsVirtual(f)
          /\ AstOf(v).node_type = "state_variable_declaration"
          /\ AstOf(v).visibility = "internal"
          /\ Nodes[v].node_type = "state_variable"
          /\ AstOf(c).node_type = "function_definition"
          /\ NamedAsContract(AstOf(c))
          /\ Nodes[c].node_type = "constructor_function"
          /\ AstOf(f).class = FunctionNode
          /\ AstOf(f).name = "f"
          /\ Nodes[f].node_type = "function"

\* ---------------------------------------------------------------- C25
\* C25: a map or flat_map step on a failure returns that failure and calls
\* no function, so the error of the first failure stays to the end of the
\* chain; a step on a success whose function raises returns a failure with
\* the exception's message.
C25_FailurePassesThrough ==
    [][ chain_steps' = chain_steps + 1 =>
          /\ ~chain_result.is_success =>
                /\ chain_result' = chain_result
                /\ chain_call'.calls = <<>>
          /\ (chain_result.is_success /\ chain_call'.fn = "divide_by_zero") =>
                /\ chain_call'.calls = <<chain_result.value>>
                /\ chain_result' = Result_failure("division by zero") ]_vars

\* A function raised in a step of the chain, and a later step was made on
\* that failure.
C25_Witness ==
    /\ chain_steps >= 2
    /\ ~chain_result.is_success
    /\ chain_result.error = "division by zero"
    /\ chain_call.fn # "divide_by_zero"
    /\ chain_call.calls = <<>>

\* ------------------------------------------------------------------ C26
\* The files that hold a slot of the semaphore: woken with it or past the
\* file read and awaiting pipeline.detect.
SlotHolders == {file \in DOMAIN tasks : tasks[file].pc \in {"woken", "detecting"}}

\* At every moment of detect_batch: no more files hold a slot than
\* concurrency_limit, and every slot not held is back in the semaphore; a
\* file has returned at most one entry, of status success or error, and has
\* returned it exactly when it is done; the statistics returned have
\* total = successful + failed = the number of files.
BatchSafety ==
    /\ tasks # <<>> =>
          /\ Cardinality(SlotHolders) <= batch_detector.concurrency_limit
          /\ semaphore._value + Cardinality(SlotHolders)
                = batch_detector.concurrency_limit
    /\ \A file \in DOMAIN tasks :
          /\ Len(tasks[file].returns) <= 1
          /\ tasks[file].pc = "done" <=> Len(tasks[file].returns) = 1
          /\ \A k \in DOMAIN tasks[file].returns :
                /\ tasks[file].returns[k].status \in {"success", "error"}
                /\ tasks[file].returns[k].file_name = file
    /\ batch_stats.total >= 0 =>
          /\ batch_stats.total = batch_stats.successful + batch_stats.failed
          /\ batch_stats.total = Len(tasks)

\* Every file has its entry and detect_batch has returned the statistics.
BatchFinished ==
    /\ \A file \in DOMAIN tasks : tasks[file].pc = "done"
    /\ batch_stats.total = Len(tasks)

RetryCeiling ==
    IF llm_config.rate_limit_retry_attempts >= llm_config.retry_attempts
    THEN llm_config.rate_limit_retry_attempts
    ELSE llm_config.retry_attempts

\* The API calls of one _call_api_with_retry: at most
\* max(rate_limit_retry_attempts, retry_attempts) + 1 are made, the k-th with
\* retry_count k - 1; a call is retried only after a rate-limit error below
\* rate_limit_retry_attempts or a network or timeout error below
\* retry_attempts; any other error is the last call and is raised as it is;
\* the backoff after a rate-limit error is
\* min(initial_backoff * 2^retry_count, max_backoff).
RetryRules ==
    /\ Len(api_log) <= RetryCeiling + 1
    /\ \A k \in DOMAIN api_log :
          LET entry == api_log[k]
          IN  /\ entry.retry_count = k - 1
              /\ entry.retried =>
                    \/ /\ is_rate_limit_error(entry.error)
                       /\ entry.retry_count < llm_config.rate_limit_retry_attempts
                    \/ /\ is_network_error(entry.error)
                       /\ entry.retry_count < llm_config.retry_attempts
              /\ ~entry.retried => k = Len(api_log) /\ retry_frames = <<>>
              /\ entry.retried /\ k = Len(api_log) => Len(retry_frames) = k + 1
              /\ ( /\ entry.error # NoError
                   /\ ~is_rate_limit_error(entry.error)
                   /\ ~is_network_error(entry.error) ) =>
                    /\ ~entry.retried
                    /\ api_outcome = Raises(entry.error)
              /\ entry.retried /\ is_rate_limit_error(entry.error) =>
                    LET doubled == llm_config.initial_backoff * (2 ^ entry.retry_count)
                    IN  entry.backoff = IF doubled <= llm_config.max_backoff
                                         THEN doubled
                                         ELSE llm_config.max_backoff

\* C27: _call_api_with_retry ends for every sequence of API outcomes, after
\* at most max(rate_limit_retry_attempts, retry_attempts) + 1 API calls made
\* by the rules above.
C27_RetryTerminates ==
    /\ []RetryRules
    /\ (retry_frames # <<>>) ~> (retry_frames = <<>> /\ api_outcome # NoOutcome)

\* Rate-limit errors up to the limit, with a backoff that reached
\* max_backoff, and the exception of the exhausted retries raised.
C27_Witness ==
    /\ retry_frames = <<>>
    /\ api_outcome.raised
    /\ llm_config.rate_limit_retry_attempts = MaxRetries
    /\ llm_config.retry_attempts < MaxRetries
    /\ Len(api_log) = MaxRetries + 1
    /\ \A k \in DOMAIN api_log : is_rate_limit_error(api_log[k].error)
    /\ \E k \in DOMAIN api_log :
          /\ api_log[k].backoff = llm_config.max_backoff
          /\ llm_config.initial_backoff * (2 ^ api_log[k].retry_count) > llm_config.max_backoff

\* ------------------------------------------------------------------ C28
\* C28: a detect call made after a detect call for the same contract data
\* has returned, having stored its result in the cache, does not invoke
\* analyze_code and returns the entry the cache then holds; every detect call
\* that has ended has returned an entry.
C28_LaterCallsAreCached ==
    \A stored, later \in DOMAIN detect_log :
        ( /\ stored < later
          /\ detect_log[stored].event = "return"
          /\ \E k \in 1..stored : /\ detect_log[k].event = "analyze_code"
                                  /\ detect_log[k].id = detect_log[stored].id
          /\ detect_log[later].event = "call"
          /\ detect_log[later].data = detect_log[stored].data )
        => /\ later < Len(detect_log)
           /\ detect_log[later + 1].event = "return"
           /\ detect_log[later + 1].id = detect_log[later].id
           /\ HasKey(detect_log[later + 1].entry, "classification_result")

\* ------------------------------------------------------------------ C29
\* C29: every result process_file has returned has a status, "success" or
\* "failed"; process_batch does not end by an exception; and when it has
\* returned, summary.success + summary.failed = total_files.
C29_EveryResultHasStatus ==
    batch_pc # "idle" =>
        /\ \A k \in DOMAIN batch_result.results :
              /\ HasKey(batch_result.results[k], "status")
              /\ Get(batch_result.results[k], "status") \in {"success", "failed"}
        /\ batch_pc # "raised"
        /\ batch_pc = "returned" =>
              batch_result.summary.success + batch_result.summary.failed
                 = batch_result.total_files

\* ------------------------------------------------------------------ C30
\* The pairs of ids joined by a data_dependency edge of the DFG.
DataPairs ==
    {<<current_dfg.edges[id].source_node_id, current_dfg.edges[id].target_node_id>> :
        id \in {id \in DOMAIN current_dfg.edges :
                   current_dfg.edges[id].edge_type = "data_dependency"}}

\* The ids reached from the ids of `from` by at most `steps` further edges.
RECURSIVE ReachedWithin(_, _)
ReachedWithin(from, steps) ==
    IF steps = 0 THEN from
    ELSE ReachedWithin(from \cup {pair[2] : pair \in {p \in DataPairs : p[1] \in from}},
                       steps - 1)

\* The ids reached from start by one or more data_dependency edges.
ReachableFrom(start) ==
    ReachedWithin({pair[2] : pair \in {p \in DataPairs : p[1] = start}},
                  Cardinality(DataPairs))

\* The list returned begins with start, goes along data_dependency edges and
\* ends at a node with a data_dependency edge to end.
IsDataPath(path, start, end) ==
    /\ path[1] = start
    /\ \A k \in 1..(Len(path) - 1) : <<path[k], path[k + 1]>> \in DataPairs
    /\ <<path[Len(path)], end>> \in DataPairs

\* C30 as stated: the list returned is non-empty exactly when end is reachable
\* from start by one or more data_dependency edges, and is then a path from
\* start to a predecessor of end.
C30_PathIffReachable ==
    flow # NoFlow =>
        /\ flow.path # <<>> <=> flow.end \in ReachableFrom(flow.start)
        /\ flow.path # <<>> => IsDataPath(flow.path, flow.start, flow.end)

\* C30 for what the code returns: the list is non-empty exactly when end is
\* another id than start and reachable from it by data_dependency edges; it
\* is then a path from start to a predecessor of end; for end = start the
\* list is empty, on a cycle too; the call leaves the DFG as it was.
C30_PathIffReachableElsewhere ==
    /\ [](flow # NoFlow =>
            /\ flow.path # <<>> <=> ( /\ flow.end # flow.start
                                      /\ flow.end \in ReachableFrom(flow.start) )
            /\ flow.path # <<>> => IsDataPath(flow.path, flow.start, flow.end))
    /\ [][flow' # flow => current_dfg' = current_dfg]_vars

\* A path of two nodes found to a synthetic id, in a DFG where the first
\* node is on a cycle of data dependencies.
C30_Witness ==
    /\ flow.end = InitPlaceholder(NodeId(1))
    /\ Len(flow.path) = 2
    /\ flow.start \in ReachableFrom(flow.start)

====
